---- MODULE Spec2Model ----
(***************************************************************************)
(* A model of game.py, a terminal arcade game: the entities (Model,        *)
(* MultiCharObj, Ball, Enemy, TankPlayer), their motion, the collision     *)
(* pass, the pruning of dead entities, the health indicator and the frame  *)
(* loop of main().                                                         *)
(*                                                                         *)
(* Numbers.  Positions, speeds and direction arguments are Python floats;  *)
(* here they are fixed-point integers counting 1/SCALE of a screen cell.   *)
(* Times (time.time()) are integers counting 1/TICKS of a second.          *)
(* An attribute holding None is <<>>, one holding the number v is <<v>>.   *)
(* A Python string is the sequence of its characters.                      *)
(* Objects live in heap (a sequence of records, the index is the object's  *)
(* identity); lists and sets of objects hold identities.                   *)
(***************************************************************************)
EXTENDS Integers, Sequences, FiniteSets, TLC

VARIABLES
  heap,           \* every object constructed so far, by identity
  objects,        \* main: list of the objects in the game
  enemies,        \* main: set of the living enemies
  game_has_ended, \* main: flag
  exit_time,      \* main: deadline (None is float('inf'))
  screen_width,   \* curses.COLS
  screen_height,  \* curses.LINES
  now,            \* time.time()
  pc,             \* position in main's loop, or in a call sequence
  op,             \* the operation called last
  args,           \* its arguments
  ret,            \* its return value
  raised,         \* the exception it raised ("" when none)
  pre,            \* heap and objects as they were when it was called
  hist            \* what the calls so far did (times of shots, frames run)

vars == <<heap, objects, enemies, game_has_ended, exit_time, screen_width,
          screen_height, now, pc, op, args, ret, raised, pre, hist>>

mainVars == <<enemies, game_has_ended, exit_time>>

---------------------------------------------------------------------------
(* Number representation *)

SCALE == 20

None == <<>>
Some(v) == <<v>>
Val(o) == o[1]

Abs(n) == IF n < 0 THEN -n ELSE n
Max(a, b) == IF a >= b THEN a ELSE b

\* int(round(v)): Python 3 rounds to the nearest integer, a tie to the even one.
Round(v) ==
  LET q == v \div SCALE
      r == v % SCALE
  IN  IF 2 * r < SCALE THEN q
      ELSE IF 2 * r > SCALE THEN q + 1
      ELSE IF q % 2 = 0 THEN q ELSE q + 1

\* c * n for a one-character string c: the empty string when n <= 0.
Rep(c, n) == [i \in 1..n |-> c]

Range(s) == {s[i] : i \in DOMAIN s}

RECURSIVE SumOver(_, _)
SumOver(S, f) ==
  IF S = {} THEN 0
  ELSE LET e == CHOOSE e \in S : TRUE IN f[e] + SumOver(S \ {e}, f)

---------------------------------------------------------------------------
(* Configuration constants *)

FRAMES_PER_SECOND == 10
DEFAULT_INITIAL_HEALTH == 5
\* One tick of time is the sleep of one frame, 1.0 / FRAMES_PER_SECOND.
TICKS == FRAMES_PER_SECOND
PLAYER_HEALTH_MAX == DEFAULT_INITIAL_HEALTH
\* 0.5 s
LASER_RELOAD_TIME_SEC == TICKS \div 2
GAMEWINORLOSE_WAIT == 3 * TICKS

DISAPPEAR == 0
BOUNCE == 1

---------------------------------------------------------------------------
(* class Model *)

Model ==
  [cls |-> "Model",
   x_radius |-> 0, y_radius |-> 0,
   x |-> None, y |-> None,
   saved_speed |-> 0, speed |-> 0,
   x_speed |-> 0, y_speed |-> 0,
   x_speed_save |-> None, y_speed_save |-> None,
   edge_strategy |-> BOUNCE,
   can_collide |-> TRUE,
   z_index |-> 1,
   health |-> DEFAULT_INITIAL_HEALTH,
   damage |-> 1,
   label |-> ""]

set_label(o, l) == [o EXCEPT !.label = l]
set_damage(o, d) == [o EXCEPT !.damage = d]
set_health(o, h) == [o EXCEPT !.health = h]
set_z_index(o, z) == [o EXCEPT !.z_index = z]
set_radius(o, xr, yr) == [o EXCEPT !.x_radius = xr, !.y_radius = yr]
set_position(o, x, y) == [o EXCEPT !.x = x, !.y = y]
set_speed(o, s) == [o EXCEPT !.saved_speed = s, !.speed = s]
set_edge_strategy(o, s) == [o EXCEPT !.edge_strategy = s]
set_can_collide(o, c) == [o EXCEPT !.can_collide = c]

\* One velocity component, speed * d / sqrt(d*d + e*e), to the nearest unit:
\* the m with m - 1/2 <= speed*|d|/sqrt(d*d + e*e) < m + 1/2, in integers.
Component(speed, d, e) ==
  LET n2 == d * d + e * e
      t2 == 4 * speed * speed * d * d
      m == CHOOSE v \in 0..speed :
             /\ (v = 0 \/ (2 * v - 1) * (2 * v - 1) * n2 <= t2)
             /\ (2 * v + 1) * (2 * v + 1) * n2 > t2
  IN  IF d < 0 THEN -m ELSE m

\* direction_len < 0.001: on the 1/SCALE grid only the zero vector is that short.
BadDirection(dx, dy) == dx = 0 /\ dy = 0

set_direction(o, dx, dy) ==
  [o EXCEPT !.x_speed = Component(o.speed, dx, dy),
            !.y_speed = Component(o.speed, dy, dx)]

stop(o) ==
  [o EXCEPT !.x_speed_save = Some(o.x_speed), !.x_speed = 0,
            !.y_speed_save = Some(o.y_speed), !.y_speed = 0]

\* Mutant: the saved velocity is restored whether or not the object moves.
resume_Always(o) ==
  IF o.x_speed_save = None \/ o.y_speed_save = None
    THEN [obj |-> o, raised |-> "AttributeError"]
  ELSE [obj |-> [o EXCEPT !.x_speed = Val(o.x_speed_save),
                          !.y_speed = Val(o.y_speed_save)],
        raised |-> ""]

\* resume reads x_speed_save, an attribute only stop() creates.
resume(o) ==
  IF Abs(o.x_speed) + Abs(o.y_speed) > 0
    THEN [obj |-> o, raised |-> ""]
  ELSE IF o.x_speed_save = None \/ o.y_speed_save = None
    THEN [obj |-> o, raised |-> "AttributeError"]
  ELSE [obj |-> [o EXCEPT !.x_speed = Val(o.x_speed_save),
                          !.y_speed = Val(o.y_speed_save)],
        raised |-> ""]

x_in_bounds(o, x, width) ==
  /\ 0 <= x - o.x_radius * SCALE
  /\ x + o.x_radius * SCALE <= (width - 1) * SCALE

y_in_bounds(o, y, height) ==
  /\ 0 <= y - o.y_radius * SCALE
  /\ y + o.y_radius * SCALE <= (height - 1) * SCALE

propose_move(x, y, x_speed, y_speed) == <<x + x_speed, y + y_speed>>

\* Mutant: the position check passes when only one coordinate is None, and
\* the addition of None then fails with a TypeError.
move_AndNone(o, height, width) ==
  IF o.x = None /\ o.y = None
    THEN [obj |-> o, ret |-> None, raised |-> "RuntimeError: set_position"]
  ELSE [obj |-> o, ret |-> None, raised |-> "TypeError"]

\* Mutant: only leaving the area in x makes a DISAPPEAR object disappear.
move_DisappearOnXOnly(o, height, width) ==
  IF o.x = None \/ o.y = None
    THEN [obj |-> o, ret |-> None, raised |-> "RuntimeError: set_position"]
  ELSE
    LET p == propose_move(Val(o.x), Val(o.y), o.x_speed, o.y_speed)
        x_inside == x_in_bounds(o, p[1], width)
        y_inside == y_in_bounds(o, p[2], height)
    IN  IF ~x_inside /\ o.edge_strategy = DISAPPEAR
          THEN [obj |-> o, ret |-> FALSE, raised |-> ""]
        ELSE
          LET xs == IF ~x_inside THEN -o.x_speed ELSE o.x_speed
              ys == IF ~y_inside THEN -o.y_speed ELSE o.y_speed
              q == propose_move(Val(o.x), Val(o.y), xs, ys)
              o2 == [o EXCEPT !.x_speed = xs, !.y_speed = ys,
                              !.x = Some(q[1]), !.y = Some(q[2])]
          IN  IF ~x_in_bounds(o2, q[1], width)
                THEN [obj |-> o2, ret |-> None, raised |-> "RuntimeError: Bad x"]
              ELSE IF ~y_in_bounds(o2, q[2], height)
                THEN [obj |-> o2, ret |-> None, raised |-> "RuntimeError: Bad y"]
              ELSE [obj |-> o2, ret |-> TRUE, raised |-> ""]

\* Mutant: the y speed is reversed when x, not y, left the area.
move_ReflectsWrongAxis(o, height, width) ==
  IF o.x = None \/ o.y = None
    THEN [obj |-> o, ret |-> None, raised |-> "RuntimeError: set_position"]
  ELSE
    LET p == propose_move(Val(o.x), Val(o.y), o.x_speed, o.y_speed)
        x_inside == x_in_bounds(o, p[1], width)
        y_inside == y_in_bounds(o, p[2], height)
    IN  IF ~(x_inside /\ y_inside) /\ o.edge_strategy = DISAPPEAR
          THEN [obj |-> o, ret |-> FALSE, raised |-> ""]
        ELSE
          LET xs == IF ~x_inside THEN -o.x_speed ELSE o.x_speed
              ys == IF ~x_inside THEN -o.y_speed ELSE o.y_speed
              q == propose_move(Val(o.x), Val(o.y), xs, ys)
              o2 == [o EXCEPT !.x_speed = xs, !.y_speed = ys,
                              !.x = Some(q[1]), !.y = Some(q[2])]
          IN  IF ~x_in_bounds(o2, q[1], width)
                THEN [obj |-> o2, ret |-> None, raised |-> "RuntimeError: Bad x"]
              ELSE IF ~y_in_bounds(o2, q[2], height)
                THEN [obj |-> o2, ret |-> None, raised |-> "RuntimeError: Bad y"]
              ELSE [obj |-> o2, ret |-> TRUE, raised |-> ""]

\* Mutant: after the bounce only x is checked against the area.
move_ChecksXOnly(o, height, width) ==
  IF o.x = None \/ o.y = None
    THEN [obj |-> o, ret |-> None, raised |-> "RuntimeError: set_position"]
  ELSE
    LET p == propose_move(Val(o.x), Val(o.y), o.x_speed, o.y_speed)
        x_inside == x_in_bounds(o, p[1], width)
        y_inside == y_in_bounds(o, p[2], height)
    IN  IF ~(x_inside /\ y_inside) /\ o.edge_strategy = DISAPPEAR
          THEN [obj |-> o, ret |-> FALSE, raised |-> ""]
        ELSE
          LET xs == IF ~x_inside THEN -o.x_speed ELSE o.x_speed
              ys == IF ~y_inside THEN -o.y_speed ELSE o.y_speed
              q == propose_move(Val(o.x), Val(o.y), xs, ys)
              o2 == [o EXCEPT !.x_speed = xs, !.y_speed = ys,
                              !.x = Some(q[1]), !.y = Some(q[2])]
          IN  IF ~x_in_bounds(o2, q[1], width)
                THEN [obj |-> o2, ret |-> None, raised |-> "RuntimeError: Bad x"]
              ELSE [obj |-> o2, ret |-> TRUE, raised |-> ""]

\* Mutant: an object leaving the area is not reflected; it moves on.
move_PassesThrough(o, height, width) ==
  IF o.x = None \/ o.y = None
    THEN [obj |-> o, ret |-> None, raised |-> "RuntimeError: set_position"]
  ELSE
    LET p == propose_move(Val(o.x), Val(o.y), o.x_speed, o.y_speed)
        x_inside == x_in_bounds(o, p[1], width)
        y_inside == y_in_bounds(o, p[2], height)
    IN  IF ~(x_inside /\ y_inside) /\ o.edge_strategy = DISAPPEAR
          THEN [obj |-> o, ret |-> FALSE, raised |-> ""]
        ELSE [obj |-> [o EXCEPT !.x = Some(p[1]), !.y = Some(p[2])],
              ret |-> TRUE, raised |-> ""]

\* move: the object afterwards, the value returned, the exception raised.
move(o, height, width) ==
  IF o.x = None \/ o.y = None
    THEN [obj |-> o, ret |-> None, raised |-> "RuntimeError: set_position"]
  ELSE
    LET p == propose_move(Val(o.x), Val(o.y), o.x_speed, o.y_speed)
        x_inside == x_in_bounds(o, p[1], width)
        y_inside == y_in_bounds(o, p[2], height)
    IN  IF ~(x_inside /\ y_inside) /\ o.edge_strategy = DISAPPEAR
          THEN [obj |-> o, ret |-> FALSE, raised |-> ""]
        ELSE
          LET xs == IF ~x_inside THEN -o.x_speed ELSE o.x_speed
              ys == IF ~y_inside THEN -o.y_speed ELSE o.y_speed
              q == propose_move(Val(o.x), Val(o.y), xs, ys)
              o2 == [o EXCEPT !.x_speed = xs, !.y_speed = ys,
                              !.x = Some(q[1]), !.y = Some(q[2])]
          IN  IF ~x_in_bounds(o2, q[1], width)
                THEN [obj |-> o2, ret |-> None, raised |-> "RuntimeError: Bad x"]
              ELSE IF ~y_in_bounds(o2, q[2], height)
                THEN [obj |-> o2, ret |-> None, raised |-> "RuntimeError: Bad y"]
              ELSE [obj |-> o2, ret |-> TRUE, raised |-> ""]

---------------------------------------------------------------------------
(* class MultiCharObj, class Ball *)

\* Mutant: only the first row's width is checked.
MultiCharObjError_FirstRowOnly(x_radius, y_radius, strings) ==
  IF Len(strings) # 2 * y_radius + 1
    THEN "ValueError: y radius"
  ELSE IF Len(strings) > 0 /\ Len(strings[1]) # 2 * x_radius + 1
    THEN "ValueError: x radius"
  ELSE ""

\* The ValueError of the constructor, "" when the strings fit the radii.
MultiCharObjError(x_radius, y_radius, strings) ==
  IF Len(strings) # 2 * y_radius + 1
    THEN "ValueError: y radius"
  ELSE IF \E i \in 1..Len(strings) : Len(strings[i]) # 2 * x_radius + 1
    THEN "ValueError: x radius"
  ELSE ""

MultiCharObj(x_radius, y_radius, strings) ==
  [set_radius(Model, x_radius, y_radius) EXCEPT !.cls = "MultiCharObj"]
    @@ [strings |-> strings]

Ball(char) == MultiCharObj(0, 0, <<<<char>>>>)

---------------------------------------------------------------------------
(* class Enemy *)

set_shoot_interval(o, t, time_now) ==
  [o EXCEPT !.shoot_interval = t, !.last_shot = time_now]

Enemy(x_radius, y_radius, strings, time_now) ==
  [MultiCharObj(x_radius, y_radius, strings) EXCEPT !.cls = "Enemy"]
    @@ [shoot_interval |-> 0, last_shot |-> time_now]

\* The bomb try_to_shoot makes.
Bomb(o) ==
  set_edge_strategy(
    set_direction(
      set_speed(
        set_position(set_health(set_label(Ball("|"), "BOMB"), 1),
                     o.x, Some(Val(o.y) + (o.y_radius + 1) * SCALE)),
        SCALE),
      0, SCALE),
    DISAPPEAR)

\* try_to_shoot at time_now, random.uniform(-1, 1) having drawn jitter: the
\* enemy afterwards, whether a bomb (the object Bomb(o)) is returned, and the
\* exception raised: last_shot is assigned before self.y + self.y_radius + 1
\* is evaluated, which fails when y is None.
try_to_shoot(o, time_now, jitter) ==
  IF o.shoot_interval = 0 THEN [obj |-> o, fired |-> FALSE, raised |-> ""]
  ELSE IF time_now > o.last_shot + o.shoot_interval + jitter
    THEN IF o.y = None
           THEN [obj |-> [o EXCEPT !.last_shot = time_now], fired |-> FALSE,
                 raised |-> "TypeError"]
         ELSE [obj |-> [o EXCEPT !.last_shot = time_now], fired |-> TRUE,
               raised |-> ""]
  ELSE [obj |-> o, fired |-> FALSE, raised |-> ""]

---------------------------------------------------------------------------
(* class TankPlayer *)

TankPlayer(x_radius, y_radius, strings) ==
  [MultiCharObj(x_radius, y_radius, strings) EXCEPT !.cls = "TankPlayer"]
    @@ [laser_shot_time |-> 0]

\* The laser shoot_laser makes: speed 1.5, up and to the right.
Laser(o) ==
  set_edge_strategy(
    set_direction(
      set_speed(
        set_position(set_label(Ball("/"), "B"),
                     Some(Val(o.x) + 2 * SCALE), Some(Val(o.y) - 2 * SCALE)),
        SCALE + SCALE \div 2),
      SCALE, -SCALE),
    DISAPPEAR)

\* Mutant: a shot exactly one reload time after the last one is refused.
shoot_laser_StrictlyLater(o, time_now) ==
  IF time_now <= o.laser_shot_time + LASER_RELOAD_TIME_SEC
    THEN [obj |-> o, fired |-> FALSE]
  ELSE [obj |-> [o EXCEPT !.laser_shot_time = time_now], fired |-> TRUE]

\* shoot_laser at time_now: the player afterwards and whether a laser (the
\* object Laser(o)) is returned, None otherwise.
shoot_laser(o, time_now) ==
  IF time_now < o.laser_shot_time + LASER_RELOAD_TIME_SEC
    THEN [obj |-> o, fired |-> FALSE]
  ELSE [obj |-> [o EXCEPT !.laser_shot_time = time_now], fired |-> TRUE]

---------------------------------------------------------------------------
(* Collision detection *)

\* Mutant: boxes that share only the left edge column of a do not count.
HaveObjectsCollided_NoTouch(a, b) ==
  IF ~(a.can_collide /\ b.can_collide) THEN FALSE
  ELSE
    LET a_x == Round(Val(a.x))
        a_y == Round(Val(a.y))
        b_x == Round(Val(b.x))
        b_y == Round(Val(b.y))
    IN  IF a_x - a.x_radius >= b_x + b.x_radius THEN FALSE
        ELSE IF a_x + a.x_radius < b_x - b.x_radius THEN FALSE
        ELSE IF a_y - a.y_radius > b_y + b.y_radius THEN FALSE
        ELSE IF a_y + a.y_radius < b_y - b.y_radius THEN FALSE
        ELSE TRUE

\* Mutant: the can_collide flags are not looked at.
HaveObjectsCollided_IgnoresCanCollide(a, b) ==
  LET a_x == Round(Val(a.x))
      a_y == Round(Val(a.y))
      b_x == Round(Val(b.x))
      b_y == Round(Val(b.y))
  IN  IF a_x - a.x_radius > b_x + b.x_radius THEN FALSE
      ELSE IF a_x + a.x_radius < b_x - b.x_radius THEN FALSE
      ELSE IF a_y - a.y_radius > b_y + b.y_radius THEN FALSE
      ELSE IF a_y + a.y_radius < b_y - b.y_radius THEN FALSE
      ELSE TRUE

HaveObjectsCollided(a, b) ==
  IF ~(a.can_collide /\ b.can_collide) THEN FALSE
  ELSE
    LET a_x == Round(Val(a.x))
        a_y == Round(Val(a.y))
        b_x == Round(Val(b.x))
        b_y == Round(Val(b.y))
    IN  IF a_x - a.x_radius > b_x + b.x_radius THEN FALSE
        ELSE IF a_x + a.x_radius < b_x - b.x_radius THEN FALSE
        ELSE IF a_y - a.y_radius > b_y + b.y_radius THEN FALSE
        ELSE IF a_y + a.y_radius < b_y - b.y_radius THEN FALSE
        ELSE TRUE

\* The two nested while loops, from the indices i, j (1-based) on.  h is the
\* heap, seen the pairs <<i, j>> examined so far.
RECURSIVE CollisionLoop(_, _, _, _, _)
CollisionLoop(h, objs, i, j, seen) ==
  IF i > Len(objs) THEN [heap |-> h, seen |-> seen]
  ELSE IF j > Len(objs) THEN CollisionLoop(h, objs, i + 1, i + 2, seen)
  ELSE
    LET oi == objs[i]
        oj == objs[j]
        h1 == [h EXCEPT ![oi].health = @ - h[oj].damage]
        h2 == [h1 EXCEPT ![oj].health = @ - h1[oi].damage]
    IN  IF HaveObjectsCollided(h[oi], h[oj]) /\ h[oi].label # h[oj].label
          THEN CollisionLoop(h2, objs, i, j + 1, Append(seen, <<i, j>>))
          ELSE CollisionLoop(h, objs, i, j + 1, Append(seen, <<i, j>>))

\* The loops of the mutant below: j runs over the whole list.
RECURSIVE CollisionLoopFull(_, _, _, _, _)
CollisionLoopFull(h, objs, i, j, seen) ==
  IF i > Len(objs) THEN [heap |-> h, seen |-> seen]
  ELSE IF j > Len(objs) THEN CollisionLoopFull(h, objs, i + 1, 1, seen)
  ELSE
    LET oi == objs[i]
        oj == objs[j]
        h1 == [h EXCEPT ![oi].health = @ - h[oj].damage]
        h2 == [h1 EXCEPT ![oj].health = @ - h1[oi].damage]
    IN  IF HaveObjectsCollided(h[oi], h[oj]) /\ h[oi].label # h[oj].label
          THEN CollisionLoopFull(h2, objs, i, j + 1, Append(seen, <<i, j>>))
          ELSE CollisionLoopFull(h, objs, i, j + 1, Append(seen, <<i, j>>))

\* Mutant: both (A, B) and (B, A) are examined.
RunCollisionDetection_BothHalves(h, objs) ==
  CollisionLoopFull(h, objs, 1, 1, <<>>)

RunCollisionDetection(h, objs) == CollisionLoop(h, objs, 1, 2, <<>>)

---------------------------------------------------------------------------
(* Pruning *)

Del(s, i) == SubSeq(s, 1, i - 1) \o SubSeq(s, i + 1, Len(s))

\* The while loop from index i on: after a deletion i is decremented and
\* incremented, so it stays.
RECURSIVE RemoveLoop(_, _, _, _)
RemoveLoop(h, objs, i, removed_set) ==
  IF i > Len(objs) THEN [objects |-> objs, removed_set |-> removed_set]
  ELSE IF h[objs[i]].health <= 0
    THEN RemoveLoop(h, Del(objs, i), i, removed_set \cup {objs[i]})
  ELSE RemoveLoop(h, objs, i + 1, removed_set)

RECURSIVE RemoveLoopSkipping(_, _, _, _)
RemoveLoopSkipping(h, objs, i, removed_set) ==
  IF i > Len(objs) THEN [objects |-> objs, removed_set |-> removed_set]
  ELSE IF h[objs[i]].health <= 0
    THEN RemoveLoopSkipping(h, Del(objs, i), i + 1, removed_set \cup {objs[i]})
  ELSE RemoveLoopSkipping(h, objs, i + 1, removed_set)

\* Mutant: i is not decremented after a deletion.
RemoveDeadObjects_Skipping(h, objs) == RemoveLoopSkipping(h, objs, 1, {})

RECURSIVE RemoveLoopKeepsZero(_, _, _, _)
RemoveLoopKeepsZero(h, objs, i, removed_set) ==
  IF i > Len(objs) THEN [objects |-> objs, removed_set |-> removed_set]
  ELSE IF h[objs[i]].health < 0
    THEN RemoveLoopKeepsZero(h, Del(objs, i), i, removed_set \cup {objs[i]})
  ELSE RemoveLoopKeepsZero(h, objs, i + 1, removed_set)

\* Mutant: an object with health 0 is kept.
RemoveDeadObjects_KeepsZero(h, objs) == RemoveLoopKeepsZero(h, objs, 1, {})

RemoveDeadObjects(h, objs) == RemoveLoop(h, objs, 1, {})

---------------------------------------------------------------------------
(* Health indicator *)

UpdatePlayerHealth(player, player_health_obj) ==
  LET max_health == Len(player_health_obj.strings[1])
  IN  [player_health_obj EXCEPT !.strings =
         <<Rep("X", player.health) \o Rep(" ", max_health - player.health)>>]

\* int(n / 2): the quotient cut towards zero.
IntHalf(n) == IF n >= 0 THEN n \div 2 ELSE -((-n) \div 2)

MakePlayerHealthObject(player_health_max) ==
  MultiCharObj(IntHalf(player_health_max), 0,
               <<Rep("X", player_health_max)>>)

---------------------------------------------------------------------------
(* Factories and the key handler *)

PlayerStrings ==
  <<<<" ", " ", " ", " ", "/", "/", " ">>,
    <<"B", "B", "B", "B", "B", "B", " ">>,
    <<"C", "C", "C", "C", "C", "C", "C">>>>

MakePlayer ==
  set_direction(
    set_speed(set_label(TankPlayer(3, 1, PlayerStrings), "P"), SCALE \div 2),
    SCALE, 0)

RocketStrings ==
  <<<<" ", "A", " ">>,
    <<"(", " ", ")">>,
    <<"(", " ", ")">>>>

\* Mutant: the rocket starts two rows above the player's middle, not three.
Rocket_Nearer(o) ==
  set_edge_strategy(
    set_direction(
      set_speed(
        set_label(
          set_position(MultiCharObj(1, 1, RocketStrings),
                       Some(Val(o.x) - 2 * SCALE), Some(Val(o.y) - 2 * SCALE)),
          "R"),
        SCALE),
      0, -SCALE),
    DISAPPEAR)

\* The rocket the key r makes.
Rocket(o) ==
  set_edge_strategy(
    set_direction(
      set_speed(
        set_label(
          set_position(MultiCharObj(1, 1, RocketStrings),
                       Some(Val(o.x) - 2 * SCALE), Some(Val(o.y) - 3 * SCALE)),
          "R"),
        SCALE),
      0, -SCALE),
    DISAPPEAR)

HealthLabelStrings ==
  <<<<"H", "E", "A", "L", "T", "H", " ", "=", " ">>>>

\* The static label MakeAndInstallPlayerHealthObject appends first.
HealthLabel ==
  set_can_collide(
    set_position(MultiCharObj(4, 0, HealthLabelStrings),
                 Some(4 * SCALE), Some(0)),
    FALSE)

\* The indicator MakeAndInstallPlayerHealthObject appends second and returns.
HealthIndicator(player_health_max) ==
  set_z_index(
    set_can_collide(
      set_position(MakePlayerHealthObject(player_health_max),
                   Some(12 * SCALE), Some(0)),
      FALSE),
    3)

\* MakeAndInstallPlayerHealthObject(player, objects, player_health_max), the
\* argument being a Python value [type, v]: a bool is an int to isinstance.
\* The label is appended before the indicator is constructed, and the
\* constructor of the indicator can refuse its strings.
MakeAndInstallPlayerHealthObject(h, objs, player_health_max) ==
  IF player_health_max.type \notin {"int", "bool"}
    THEN [heap |-> h, objects |-> objs, ret |-> None,
          raised |-> "TypeError: player_health_max must be int"]
  ELSE IF player_health_max.v % 2 = 0
    THEN [heap |-> h, objects |-> objs, ret |-> None,
          raised |-> "ValueError: player_health_max must be an odd integer"]
  ELSE
    LET n == player_health_max.v
        h1 == Append(h, HealthLabel)
        objs1 == Append(objs, Len(h) + 1)
        err == MultiCharObjError(IntHalf(n), 0, <<Rep("X", n)>>)
    IN  IF err # ""
          THEN [heap |-> h1, objects |-> objs1, ret |-> None, raised |-> err]
          ELSE [heap |-> Append(h1, HealthIndicator(n)),
                objects |-> Append(objs1, Len(h) + 2),
                ret |-> Some(Len(h) + 2), raised |-> ""]

GameOverStrings ==
  <<<<"/", "\\", " ", " ", " ", " ", "/", "\\", " ">>,
    <<"\\", "/", " ", " ", " ", " ", "\\", "/", " ">>,
    <<" ", " ", "/", "-", "-", "\\", " ", " ", " ">>,
    <<" ", " ", "|", "\\", "/", "|", " ", " ", " ">>,
    <<" ", " ", "|", "/", "\\", "|", " ", " ", " ">>,
    <<" ", " ", " ", "-", "-", " ", " ", " ", " ">>,
    <<"Y", "O", "U", " ", "L", "O", "S", "E", " ">>>>

MakeGameOver ==
  set_can_collide(set_z_index(MultiCharObj(4, 3, GameOverStrings), 3), FALSE)

GameWinStrings ==
  <<<<"G", "A", "M", "E", " ", "W", "I", "N", " ", ";", "D">>>>

MakeGameWin ==
  set_can_collide(set_z_index(MultiCharObj(5, 0, GameWinStrings), 3), FALSE)

SmallEnemyStrings ==
  <<<<" ", "A", " ">>,
    <<"(", "0", ")">>,
    <<"I", "I", "I">>>>

BigEnemyStrings ==
  <<<<" ", " ", " ", " ", "A", " ", " ", " ", " ">>,
    <<" ", " ", " ", "A", "A", "A", " ", " ", " ">>,
    <<" ", " ", "|", " ", "\"", " ", "|", " ", " ">>,
    <<"_", "_", "|", " ", "O", " ", "|", "_", "_">>,
    <<" ", " ", " ", "Y", " ", "Y", " ", " ", " ">>,
    <<" ", " ", " ", "|", " ", "|", " ", " ", " ">>,
    <<" ", " ", " ", "|", " ", "|", " ", " ", " ">>>>

\* One enemy of MakeEnemies, the random draws being: variant (0 or 1), the
\* offsets xoff in int(-width/3)..int(width/3) and yoff in
\* int(-height/4)..int(height/4), and left (the direction).
MakeEnemy(variant, xoff, yoff, left, width, height, time_now) ==
  LET m == IF variant = 0
             THEN Enemy(1, 1, SmallEnemyStrings, time_now)
             ELSE Enemy(4, 3, BigEnemyStrings, time_now)
      placed == set_position(m,
                  Some((width * SCALE) \div 2 + xoff * SCALE),
                  Some(Max((height * SCALE) \div 3 + yoff * SCALE,
                           (m.y_radius + 1) * SCALE)))
      fast == set_label(set_speed(placed, (7 * SCALE) \div 10), "M")
      y_speed == SCALE \div 20
  IN  set_shoot_interval(
        set_direction(fast, IF left THEN -SCALE ELSE SCALE, y_speed),
        2 * TICKS, time_now)

\* What getch() can return, as HandleKeyPress tells it apart: "none" is -1 (no
\* key; chr() raises ValueError), "x" any character without a meaning.  An
\* upper-case letter is lowered first and is the same key.
Keys == {"none", "q", "a", "d", "s", " ", "r", "p", "x"}

\* What the user answers at the prompt of pdb.set_trace(): continue, or quit,
\* which raises bdb.BdbQuit in the frame that called set_trace.
PdbCommands == {"c", "q"}

\* HandleKeyPress(player, objects, key) at time_now, player being heap object
\* pl: heap and list afterwards, the value returned, the exception raised.
\* pdb is the answer given to the debugger that the key p opens.
HandleKeyPress(h, objs, pl, key, time_now, pdb) ==
  LET same == [heap |-> h, objects |-> objs, ret |-> FALSE, raised |-> ""]
      turn(dx) ==
        LET r == resume(h[pl])
        IN  IF r.raised # ""
              THEN [same EXCEPT !.ret = None, !.raised = r.raised]
              ELSE [same EXCEPT !.heap = [h EXCEPT ![pl] = set_direction(r.obj, dx, 0)]]
  IN  CASE key = "none" -> same
        [] key = "q" -> [same EXCEPT !.ret = TRUE]
        [] key = "a" -> turn(-SCALE)
        [] key = "d" -> turn(SCALE)
        [] key = "s" -> [same EXCEPT !.heap = [h EXCEPT ![pl] = stop(h[pl])]]
        [] key = " " ->
             LET r == shoot_laser(h[pl], time_now)
             IN  IF r.fired
                   THEN [same EXCEPT
                           !.heap = Append([h EXCEPT ![pl] = r.obj], Laser(h[pl])),
                           !.objects = Append(objs, Len(h) + 1)]
                   ELSE same
        [] key = "r" ->
             [same EXCEPT !.heap = Append(h, Rocket(h[pl])),
                          !.objects = Append(objs, Len(h) + 1)]
        [] key = "p" ->
             IF pdb = "q"
               THEN [same EXCEPT !.ret = None, !.raised = "BdbQuit"]
               ELSE same
        [] OTHER -> same

---------------------------------------------------------------------------
(* Calling one operation on drawn inputs *)

SeqsUpTo(S, n) == UNION {[1..k -> S] : k \in 0..n}

Identity(n) == [i \in 1..n |-> i]

Snapshot == [heap |-> heap, objects |-> objects]

NoCall ==
  /\ op = ""
  /\ args = <<>>
  /\ ret = None
  /\ raised = ""
  /\ pre = [heap |-> <<>>, objects |-> <<>>]
  /\ hist = <<>>

NoMain ==
  /\ enemies = {}
  /\ game_has_ended = FALSE
  /\ exit_time = None
  /\ now = 0

---------------------------------------------------------------------------
(* RemoveDeadObjects on every short list *)

MaxPruneLen == 4
PruneHealths == {-1, 0, 1, 5}

InitPrune ==
  /\ heap \in SeqsUpTo({set_health(Ball("X"), h) : h \in PruneHealths},
                       MaxPruneLen)
  /\ objects = Identity(Len(heap))
  /\ screen_width = 0
  /\ screen_height = 0
  /\ pc = "start"
  /\ NoMain
  /\ NoCall

CallRemoveDeadObjects ==
  /\ pc = "start"
  /\ LET r == RemoveDeadObjects(heap, objects)
     IN  /\ objects' = r.objects
         /\ ret' = r.removed_set
  /\ op' = "RemoveDeadObjects"
  /\ pre' = Snapshot
  /\ pc' = "done"
  /\ UNCHANGED <<heap, mainVars, screen_width, screen_height, now, args,
                 raised, hist>>

SpecPrune == InitPrune /\ [][CallRemoveDeadObjects]_vars

\* C1: RemoveDeadObjects removes exactly the objects with health <= 0,
\* returns exactly that set, and keeps the survivors in their order.
C1_PruneExact ==
  (pc = "done" /\ op = "RemoveDeadObjects") =>
    /\ ret = {id \in Range(pre.objects) : heap[id].health <= 0}
    /\ objects = SelectSeq(pre.objects, LAMBDA id : heap[id].health > 0)
    /\ heap = pre.heap

\* A list dead, dead, alive, dead was pruned: adjacent dead entries, a dead
\* entry at the first and at the last index, one survivor.
C1_Witness ==
  /\ pc = "done" /\ op = "RemoveDeadObjects"
  /\ Len(pre.objects) = 4
  /\ heap[1].health <= 0 /\ heap[2].health <= 0
  /\ heap[3].health > 0 /\ heap[4].health <= 0
  /\ objects = <<3>>
  /\ ret = {1, 2, 4}

---------------------------------------------------------------------------
(* RunCollisionDetection on every short list *)

MaxCollideLen == 3
\* 1.0, 1.4 (the same cell as 1.0) and 2.0
CollideXs == {SCALE, (7 * SCALE) \div 5, 2 * SCALE}

CollideBalls ==
  {[Ball("X") EXCEPT !.x = Some(x), !.y = Some(SCALE), !.can_collide = c,
                     !.label = l, !.damage = d, !.health = 10] :
     x \in CollideXs, c \in BOOLEAN, l \in {"L", "M"}, d \in {1, 2}}

InitCollide ==
  /\ heap \in SeqsUpTo(CollideBalls, MaxCollideLen)
  /\ objects = Identity(Len(heap))
  /\ screen_width = 0
  /\ screen_height = 0
  /\ pc = "start"
  /\ NoMain
  /\ NoCall

CallRunCollisionDetection ==
  /\ pc = "start"
  /\ LET r == RunCollisionDetection(heap, objects)
     IN  /\ heap' = r.heap
         /\ hist' = r.seen
  /\ op' = "RunCollisionDetection"
  /\ pre' = Snapshot
  /\ pc' = "done"
  /\ UNCHANGED <<objects, mainVars, screen_width, screen_height, now, args,
                 ret, raised>>

SpecCollide == InitCollide /\ [][CallRunCollisionDetection]_vars

\* The boxes of a and b, on the rounded cells, overlap.
BoxesOverlap(a, b) ==
  /\ Abs(Round(Val(a.x)) - Round(Val(b.x))) <= a.x_radius + b.x_radius
  /\ Abs(Round(Val(a.y)) - Round(Val(b.y))) <= a.y_radius + b.y_radius

\* In heap h, object a is damaged by object b.
Damages(h, b, a) ==
  /\ a # b
  /\ h[a].can_collide /\ h[b].can_collide
  /\ BoxesOverlap(h[a], h[b])
  /\ h[a].label # h[b].label

\* The health a is left with when every delta is computed on h first.
HealthAfterPass(h, objs, a) ==
  h[a].health
    - SumOver({b \in Range(objs) : Damages(h, b, a)},
              [b \in Range(objs) |-> h[b].damage])

\* C2: one pass examines each unordered pair exactly once, and every
\* object's health afterwards is its health before minus the damage of every
\* other object that overlaps it, is collidable with it and has another label.
C2_PassIsBatch ==
  (pc = "done" /\ op = "RunCollisionDetection") =>
    /\ \A i, j \in 1..Len(objects) :
         i < j => Cardinality({k \in 1..Len(hist) :
                                 hist[k] = <<i, j>> \/ hist[k] = <<j, i>>}) = 1
    /\ Len(hist) * 2 = Len(objects) * (Len(objects) - 1)
    /\ \A a \in Range(objects) :
         heap[a].health = HealthAfterPass(pre.heap, objects, a)
    /\ objects = pre.objects

\* Three objects on one cell, the middle one hit by both others.
C2_Witness ==
  /\ pc = "done" /\ op = "RunCollisionDetection"
  /\ Len(objects) = 3
  /\ Damages(pre.heap, 1, 2) /\ Damages(pre.heap, 3, 2)
  /\ ~Damages(pre.heap, 1, 3)
  /\ pre.heap[1].damage = 1 /\ pre.heap[3].damage = 2
  /\ heap[2].health = pre.heap[2].health - 3

---------------------------------------------------------------------------
(* HaveObjectsCollided on every pair of boxes near each other *)

MaxOverlapRadius == 1
MaxOverlapCell == 6
\* a sits on 3.0 or 3.5, b on every half cell of 0 .. MaxOverlapCell
OverlapCoordsA == {3 * SCALE, 3 * SCALE + SCALE \div 2}
OverlapCoordsB == {k * (SCALE \div 2) : k \in 0..(2 * MaxOverlapCell)}

Box(x, y, xr, yr, c) ==
  set_can_collide(
    set_position(
      MultiCharObj(xr, yr, [i \in 1..(2 * yr + 1) |-> Rep("#", 2 * xr + 1)]),
      Some(x), Some(y)),
    c)

InitOverlap ==
  /\ \E ax \in OverlapCoordsA, ay \in OverlapCoordsA,
        bx \in OverlapCoordsB, by \in OverlapCoordsB,
        axr \in 0..MaxOverlapRadius, ayr \in 0..MaxOverlapRadius,
        bxr \in 0..MaxOverlapRadius, byr \in 0..MaxOverlapRadius,
        ac \in BOOLEAN, bc \in BOOLEAN :
       heap = <<Box(ax, ay, axr, ayr, ac), Box(bx, by, bxr, byr, bc)>>
  /\ objects = <<>>
  /\ screen_width = 0
  /\ screen_height = 0
  /\ pc = "start"
  /\ NoMain
  /\ NoCall

\* HaveObjectsCollided(a, b), then HaveObjectsCollided(b, a).
CallHaveObjectsCollided ==
  /\ pc = "start"
  /\ ret' = [ab |-> HaveObjectsCollided(heap[1], heap[2]),
             ba |-> HaveObjectsCollided(heap[2], heap[1])]
  /\ op' = "HaveObjectsCollided"
  /\ pre' = Snapshot
  /\ pc' = "done"
  /\ UNCHANGED <<heap, objects, mainVars, screen_width, screen_height, now,
                 args, raised, hist>>

SpecOverlap == InitOverlap /\ [][CallHaveObjectsCollided]_vars

\* C4: HaveObjectsCollided(a, b) is true exactly when both are collidable and,
\* on the rounded cells, the centres are at most the sum of the radii apart on
\* each axis; the answer is the same for (b, a).
C4_OverlapExact ==
  (pc = "done" /\ op = "HaveObjectsCollided") =>
    /\ ret.ab = (heap[1].can_collide /\ heap[2].can_collide
                 /\ BoxesOverlap(heap[1], heap[2]))
    /\ ret.ba = ret.ab

\* Two boxes of x radius 1 whose centres are exactly two cells apart in x (they
\* share one edge column) are reported as collided, in both argument orders.
C4_Witness ==
  /\ pc = "done" /\ op = "HaveObjectsCollided"
  /\ heap[1].x_radius = 1 /\ heap[2].x_radius = 1
  /\ Round(Val(heap[1].x)) - Round(Val(heap[2].x)) = 2
  /\ ret.ab = TRUE /\ ret.ba = TRUE

---------------------------------------------------------------------------
(* move() on one object, called up to MaxMoves times in a row *)

MaxMoves == 2
MaxMoveWidth == 6
MoveHeight == 4
MaxMoveRadius == 1
\* 0, 0.5, 1 and 2.5 cells per frame
MoveSpeeds == {0, SCALE \div 2, SCALE, 2 * SCALE + SCALE \div 2}
MoveDirections ==
  {d \in {-SCALE, 0, SCALE} \X {-SCALE, 0, SCALE} : ~BadDirection(d[1], d[2])}
\* None, and every cell from one left of (above) the area to one right of
\* (below) it
MoveCoords(n) == {None} \cup {Some(k * SCALE) : k \in (-1)..n}

Mover(xr, yr, x, y, speed, d, edge) ==
  set_edge_strategy(
    set_direction(
      set_speed(
        set_position(
          MultiCharObj(xr, yr,
                       [i \in 1..(2 * yr + 1) |-> Rep("#", 2 * xr + 1)]),
          x, y),
        speed),
      d[1], d[2]),
    edge)

InitMove ==
  /\ screen_width \in {3, MaxMoveWidth}
  /\ screen_height = MoveHeight
  /\ \E xr \in 0..MaxMoveRadius, yr \in 0..MaxMoveRadius,
        x \in MoveCoords(screen_width), y \in MoveCoords(screen_height),
        speed \in MoveSpeeds, d \in MoveDirections,
        edge \in {DISAPPEAR, BOUNCE} :
       heap = <<Mover(xr, yr, x, y, speed, d, edge)>>
  /\ objects = <<>>
  /\ pc = "start"
  /\ NoMain
  /\ NoCall

\* obj.move(screen_height, screen_width), again after a call that returned True.
CallMove ==
  /\ \/ pc = "start"
     \/ pc = "done" /\ raised = "" /\ ret = TRUE /\ Len(hist) < MaxMoves
  /\ LET r == move(heap[1], screen_height, screen_width)
     IN  /\ heap' = [heap EXCEPT ![1] = r.obj]
         /\ ret' = r.ret
         /\ raised' = r.raised
  /\ op' = "move"
  /\ args' = <<1, screen_height, screen_width>>
  /\ pre' = Snapshot
  /\ hist' = Append(hist, "move")
  /\ pc' = "done"
  /\ UNCHANGED <<objects, mainVars, screen_width, screen_height, now>>

SpecMove == InitMove /\ [][CallMove]_vars

PositionSet(o) == o.x # None /\ o.y # None

\* The box of o, centred on <<x, y>>, leaves the area on the x (y) axis.
LeavesX(o, x) ==
  x - o.x_radius * SCALE < 0 \/ x + o.x_radius * SCALE > (screen_width - 1) * SCALE
LeavesY(o, y) ==
  y - o.y_radius * SCALE < 0 \/ y + o.y_radius * SCALE > (screen_height - 1) * SCALE

InBounds(o) == ~LeavesX(o, Val(o.x)) /\ ~LeavesY(o, Val(o.y))
TentativeLeavesX(o) == LeavesX(o, Val(o.x) + o.x_speed)
TentativeLeavesY(o) == LeavesY(o, Val(o.y) + o.y_speed)

\* The object move() was called on, before and after the call.
Before == pre.heap[1]
After == heap[1]

\* C6: move() on a DISAPPEAR object whose tentative position leaves the area
\* on some axis returns False and changes neither position nor velocity.
C6_DisappearReturnsFalseUnmoved ==
  (pc = "done" /\ op = "move" /\ PositionSet(Before)
   /\ Before.edge_strategy = DISAPPEAR
   /\ (TentativeLeavesX(Before) \/ TentativeLeavesY(Before))) =>
    /\ raised = ""
    /\ ret = FALSE
    /\ After = Before

\* A DISAPPEAR object inside the area stepping out of it in y only.
C6_Witness ==
  /\ pc = "done" /\ op = "move" /\ PositionSet(Before)
  /\ Before.edge_strategy = DISAPPEAR
  /\ InBounds(Before)
  /\ ~TentativeLeavesX(Before) /\ TentativeLeavesY(Before)
  /\ Before.x_speed # 0
  /\ ret = FALSE /\ After.x = Before.x /\ After.y = Before.y

\* The velocity of Before with the components of the violated axes negated.
ReflectedXSpeed == IF TentativeLeavesX(Before) THEN -Before.x_speed ELSE Before.x_speed
ReflectedYSpeed == IF TentativeLeavesY(Before) THEN -Before.y_speed ELSE Before.y_speed

BounceCase ==
  /\ pc = "done" /\ op = "move" /\ PositionSet(Before)
  /\ Before.edge_strategy = BOUNCE
  /\ InBounds(Before)
  /\ (TentativeLeavesX(Before) \/ TentativeLeavesY(Before))

Reflected ==
  /\ After.x_speed = ReflectedXSpeed
  /\ After.y_speed = ReflectedYSpeed
  /\ After.x = Some(Val(Before.x) + ReflectedXSpeed)
  /\ After.y = Some(Val(Before.y) + ReflectedYSpeed)

\* C7 as stated: a bounce always ends inside the area and returns True.
C7_BounceAlwaysStaysInside ==
  BounceCase => (raised = "" /\ ret = TRUE /\ Reflected /\ InBounds(After))

\* C7, amended: the violated axes' speeds are negated and the position is the
\* original one plus the reflected velocity; when that position is inside the
\* area move() returns True, and otherwise it raises the post-bounce error.
C7_BounceReflects ==
  BounceCase =>
    /\ Reflected
    /\ IF InBounds(After)
         THEN raised = "" /\ ret = TRUE
         ELSE raised \in {"RuntimeError: Bad x", "RuntimeError: Bad y"}

\* An object inside the area leaving it in x only bounced: x speed negated,
\* y speed (not zero) kept, and it is inside afterwards.
C7_Witness ==
  /\ BounceCase
  /\ TentativeLeavesX(Before) /\ ~TentativeLeavesY(Before)
  /\ Before.x_speed # 0 /\ Before.y_speed # 0
  /\ After.x_speed = -Before.x_speed /\ After.y_speed = Before.y_speed
  /\ InBounds(After)
  /\ ret = TRUE

\* C8: move() on an object with x or y never set raises the precondition
\* error and changes nothing, whatever the edge policy and velocity.
C8_UnsetPositionRaises ==
  (pc = "done" /\ op = "move" /\ ~PositionSet(Before)) =>
    /\ raised = "RuntimeError: set_position"
    /\ After = Before

\* A moving DISAPPEAR object with x set and y unset was refused.
C8_Witness ==
  /\ pc = "done" /\ op = "move"
  /\ Before.x # None /\ Before.y = None
  /\ Before.edge_strategy = DISAPPEAR
  /\ Before.x_speed # 0
  /\ raised = "RuntimeError: set_position"

\* The position move() reaches from Before with the reflected velocity leaves
\* the area on some axis.
ReflectedLeaves ==
  \/ LeavesX(Before, Val(Before.x) + ReflectedXSpeed)
  \/ LeavesY(Before, Val(Before.y) + ReflectedYSpeed)

PostBounceError == raised \in {"RuntimeError: Bad x", "RuntimeError: Bad y"}

\* C21: move() on a BOUNCE object with a set position raises the post-bounce
\* error exactly when the original position plus the reflected velocity
\* leaves the area on some axis; otherwise it returns True and raises nothing.
C21_PostBounceErrorExact ==
  (pc = "done" /\ op = "move" /\ PositionSet(Before)
   /\ Before.edge_strategy = BOUNCE) =>
    IF ReflectedLeaves
      THEN PostBounceError
      ELSE raised = "" /\ ret = TRUE

\* A BOUNCE object standing still above the area, inside it in x: Bad y.
C21_Witness ==
  /\ pc = "done" /\ op = "move" /\ PositionSet(Before)
  /\ Before.edge_strategy = BOUNCE
  /\ Before.x_speed = 0 /\ Before.y_speed = 0
  /\ ~LeavesX(Before, Val(Before.x)) /\ LeavesY(Before, Val(Before.y))
  /\ raised = "RuntimeError: Bad y"


---------------------------------------------------------------------------
(* MultiCharObj(x_radius, y_radius, strings) on every small argument list *)

MaxConstructRadius == 1
MaxConstructRows == 3
MaxConstructCols == 3

InitConstruct ==
  /\ \E xr \in 0..MaxConstructRadius, yr \in 0..MaxConstructRadius,
        widths \in SeqsUpTo(0..MaxConstructCols, MaxConstructRows) :
       args = <<xr, yr, [i \in 1..Len(widths) |-> Rep("F", widths[i])]>>
  /\ heap = <<>>
  /\ objects = <<>>
  /\ screen_width = 0
  /\ screen_height = 0
  /\ pc = "start"
  /\ NoMain
  /\ op = ""
  /\ ret = None
  /\ raised = ""
  /\ pre = [heap |-> <<>>, objects |-> <<>>]
  /\ hist = <<>>

\* The constructor call: a new object on the heap, or the ValueError.
CallMultiCharObj ==
  /\ pc = "start"
  /\ LET err == MultiCharObjError(args[1], args[2], args[3])
     IN  /\ raised' = err
         /\ IF err = ""
              THEN /\ heap' = Append(heap, MultiCharObj(args[1], args[2], args[3]))
                   /\ ret' = Some(Len(heap) + 1)
              ELSE /\ heap' = heap
                   /\ ret' = None
  /\ op' = "MultiCharObj"
  /\ pre' = Snapshot
  /\ pc' = "done"
  /\ UNCHANGED <<objects, mainVars, screen_width, screen_height, now, args,
                 hist>>

SpecConstruct == InitConstruct /\ [][CallMultiCharObj]_vars

RowCountFits == Len(args[3]) = 2 * args[2] + 1
RowWidthsFit == \A i \in 1..Len(args[3]) : Len(args[3][i]) = 2 * args[1] + 1

\* C9: the constructor succeeds exactly when there are 2*y_radius+1 rows of
\* 2*x_radius+1 characters each; otherwise it raises an error naming y radius
\* (wrong row count) or x radius (a wrong row width) and makes no object.
C9_ConstructorValidates ==
  (pc = "done" /\ op = "MultiCharObj") =>
    /\ (raised = "") = (RowCountFits /\ RowWidthsFit)
    /\ raised = "" =>
         /\ Len(heap) = 1 /\ ret = Some(1)
         /\ heap[1].x_radius = args[1] /\ heap[1].y_radius = args[2]
         /\ heap[1].strings = args[3]
    /\ raised # "" => heap = <<>> /\ ret = None
    /\ ~RowCountFits => raised = "ValueError: y radius"
    /\ (RowCountFits /\ ~RowWidthsFit) => raised = "ValueError: x radius"

\* Three rows for y radius 1, the last one a character short (the test's
\* case): refused with the error naming x radius.
C9_Witness ==
  /\ pc = "done" /\ op = "MultiCharObj"
  /\ args[1] = 1 /\ args[2] = 1
  /\ Len(args[3]) = 3
  /\ Len(args[3][1]) = 3 /\ Len(args[3][2]) = 3 /\ Len(args[3][3]) = 2
  /\ raised = "ValueError: x radius"
  /\ heap = <<>>

---------------------------------------------------------------------------
(* Fire commands at non-decreasing times *)

MaxFireCommands == 4
MaxLaserTime == 12

InitLaser ==
  /\ heap = <<set_position(MakePlayer, Some(10 * SCALE), Some(10 * SCALE))>>
  /\ objects = <<1>>
  /\ now \in 0..(LASER_RELOAD_TIME_SEC + 1)
  /\ screen_width = 0
  /\ screen_height = 0
  /\ pc = "start"
  /\ enemies = {}
  /\ game_has_ended = FALSE
  /\ exit_time = None
  /\ NoCall

\* Time passes.
LaserTick ==
  /\ now < MaxLaserTime
  /\ now' = now + 1
  /\ pc' = "idle"
  /\ UNCHANGED <<heap, objects, mainVars, screen_width, screen_height, op, args,
                 ret, raised, pre, hist>>

\* player.shoot_laser(), as the tests call it: ret is the laser or None.
CallShootLaser ==
  /\ Len(hist) < MaxFireCommands
  /\ LET r == shoot_laser(heap[1], now)
     IN  IF r.fired
           THEN /\ heap' = Append([heap EXCEPT ![1] = r.obj], Laser(heap[1]))
                /\ ret' = Some(Len(heap) + 1)
           ELSE /\ heap' = heap
                /\ ret' = None
  /\ raised' = ""
  /\ op' = "shoot_laser"
  /\ args' = <<1>>
  /\ pre' = Snapshot
  /\ hist' = Append(hist, [time |-> now, fired |-> Len(heap') > Len(heap)])
  /\ pc' = "done"
  /\ UNCHANGED <<objects, mainVars, screen_width, screen_height, now>>

\* The fire command: HandleKeyPress(player, objects, ord(' ')).
PressFire ==
  /\ Len(hist) < MaxFireCommands
  /\ LET r == HandleKeyPress(heap, objects, 1, " ", now, "c")
     IN  /\ heap' = r.heap
         /\ objects' = r.objects
         /\ ret' = r.ret
         /\ raised' = r.raised
  /\ op' = "HandleKeyPress"
  /\ args' = <<1, " ">>
  /\ pre' = Snapshot
  /\ hist' = Append(hist, [time |-> now, fired |-> Len(heap') > Len(heap)])
  /\ pc' = "done"
  /\ UNCHANGED <<mainVars, screen_width, screen_height, now>>

NextLaser == LaserTick \/ CallShootLaser \/ PressFire

SpecLaser == InitLaser /\ [][NextLaser]_vars

\* The times of the successful shots so far.
ShotTimes == {hist[k].time : k \in {k \in 1..Len(hist) : hist[k].fired}}

\* C5: a fire command yields a projectile exactly when the time is at least
\* the last successful shot's time plus the reload time; a refused command
\* returns None, raises nothing, leaves the last-shot time and the collection
\* as they were; so two successful shots are a reload time apart or more.
C5_ReloadGate ==
  (pc = "done" /\ op \in {"shoot_laser", "HandleKeyPress"}) =>
    LET ready == now >= pre.heap[1].laser_shot_time + LASER_RELOAD_TIME_SEC
        laser == Len(pre.heap) + 1
    IN  /\ raised = ""
        /\ ready =>
             /\ Len(heap) = laser
             /\ heap[laser] = Laser(pre.heap[1])
             /\ heap[1] = [pre.heap[1] EXCEPT !.laser_shot_time = now]
             /\ op = "shoot_laser" => ret = Some(laser) /\ objects = pre.objects
             /\ op = "HandleKeyPress" => objects = Append(pre.objects, laser)
        /\ ~ready =>
             /\ heap = pre.heap
             /\ objects = pre.objects
             /\ op = "shoot_laser" => ret = None
        /\ \A t1, t2 \in ShotTimes :
             t1 < t2 => t2 - t1 >= LASER_RELOAD_TIME_SEC
        /\ Cardinality(ShotTimes) = Len(heap) - 1

\* A shot, a refused command less than a reload time later, and a second shot
\* exactly one reload time after the first.
C5_Witness ==
  /\ pc = "done" /\ op = "HandleKeyPress"
  /\ Len(hist) = 3
  /\ hist[1].fired /\ ~hist[2].fired /\ hist[3].fired
  /\ hist[2].time > hist[1].time
  /\ hist[3].time = hist[1].time + LASER_RELOAD_TIME_SEC
  /\ Len(objects) = 3

---------------------------------------------------------------------------
(* main(): the frame loop *)

\* curses.COLS and curses.LINES of the terminal the game runs in.
Cols == 30
Lines == 12
\* time.time() when main starts: any time of at least the reload time.
StartTime == 10 * TICKS

MaxFrames == 6
MaxKeys == 1
MaxEnemies == 2

\* main's references to the objects it makes first, in the order made.
player == 1
health_label == 2
player_health == 3
game_over_sign == 4
game_win_sign == 5

\* The draws of MakeEnemies the model follows: a small enemy heading left or
\* a big one heading right at the left and low end of the band (on a small
\* screen that is on the player), and a big one at its middle and high end
\* (where the banners are shown).
EnemyDraws ==
  {[variant |-> 0, xoff |-> -(Cols \div 3), yoff |-> Lines \div 4, left |-> TRUE],
   [variant |-> 1, xoff |-> -(Cols \div 3), yoff |-> Lines \div 4, left |-> FALSE],
   [variant |-> 1, xoff |-> 0, yoff |-> -(Lines \div 4), left |-> FALSE]}

\* ret holds dead, the set RemoveDeadObjects returned last: nothing yet.
InitMain ==
  /\ screen_width = Cols
  /\ screen_height = Lines
  /\ now = StartTime
  /\ \E n \in 1..MaxEnemies :
       \E draws \in [1..n -> EnemyDraws] :
         /\ heap =
              <<set_position(MakePlayer, Some(3 * SCALE),
                             Some((screen_height - 4) * SCALE)),
                HealthLabel,
                HealthIndicator(PLAYER_HEALTH_MAX),
                set_position(MakeGameOver, Some((screen_width * SCALE) \div 2),
                             Some((screen_height * SCALE) \div 2)),
                set_position(MakeGameWin, Some((screen_width * SCALE) \div 2),
                             Some((screen_height * SCALE) \div 2))>>
              \o [i \in 1..n |->
                    MakeEnemy(draws[i].variant, draws[i].xoff, draws[i].yoff,
                              draws[i].left, screen_width, screen_height, now)]
         /\ objects = <<player, health_label, player_health>>
                        \o [i \in 1..n |-> game_win_sign + i]
         /\ enemies = {game_win_sign + i : i \in 1..n}
  /\ game_has_ended = FALSE
  /\ exit_time = None
  /\ pc = "collide"
  /\ op = ""
  /\ args = <<>>
  /\ ret = {}
  /\ raised = ""
  /\ pre = [heap |-> <<>>, objects |-> <<>>]
  /\ hist = <<>>

\* RunCollisionDetection(objects)
Collide ==
  /\ pc = "collide"
  /\ now < StartTime + MaxFrames
  /\ heap' = RunCollisionDetection(heap, objects).heap
  /\ op' = "RunCollisionDetection"
  /\ pre' = Snapshot
  /\ pc' = "prune"
  /\ UNCHANGED <<objects, mainVars, screen_width, screen_height, now, args,
                 ret, raised, hist>>

\* dead = RemoveDeadObjects(objects); enemies = enemies.difference(dead)
Prune ==
  /\ pc = "prune"
  /\ LET r == RemoveDeadObjects(heap, objects)
     IN  /\ objects' = r.objects
         /\ ret' = r.removed_set
         /\ enemies' = enemies \ r.removed_set
  /\ op' = "RemoveDeadObjects"
  /\ pre' = Snapshot
  /\ pc' = "endcheck"
  /\ UNCHANGED <<heap, game_has_ended, exit_time, screen_width, screen_height,
                 now, args, raised, hist>>

\* Mutant: the end conditions are looked at in every frame, ended or not.
EndCheck_NoGuard ==
  /\ pc = "endcheck"
  /\ LET lost == player \in ret
         won == enemies = {}
         objs1 == IF lost THEN Append(objects, game_over_sign) ELSE objects
         objs2 == IF won THEN Append(objs1, game_win_sign) ELSE objs1
     IN  /\ objects' = objs2
         /\ game_has_ended' = (game_has_ended \/ lost \/ won)
         /\ exit_time' = IF lost \/ won
                           THEN Some(now + GAMEWINORLOSE_WAIT)
                           ELSE exit_time
  /\ op' = "EndCheck"
  /\ pre' = Snapshot
  /\ pc' = "ui"
  /\ UNCHANGED <<heap, enemies, screen_width, screen_height, now, args, ret,
                 raised, hist>>

\* Mutant: the game is won as soon as at most one enemy is left.
EndCheck_WinWithOneLeft ==
  /\ pc = "endcheck"
  /\ LET lost == ~game_has_ended /\ player \in ret
         won == ~game_has_ended /\ Cardinality(enemies) <= 1
         objs1 == IF lost THEN Append(objects, game_over_sign) ELSE objects
         objs2 == IF won THEN Append(objs1, game_win_sign) ELSE objs1
     IN  /\ objects' = objs2
         /\ game_has_ended' = (game_has_ended \/ lost \/ won)
         /\ exit_time' = IF lost \/ won
                           THEN Some(now + GAMEWINORLOSE_WAIT)
                           ELSE exit_time
  /\ op' = "EndCheck"
  /\ pre' = Snapshot
  /\ pc' = "ui"
  /\ UNCHANGED <<heap, enemies, screen_width, screen_height, now, args, ret,
                 raised, hist>>

\* if not game_has_ended: ... (ret holds dead)
EndCheck ==
  /\ pc = "endcheck"
  /\ LET lost == ~game_has_ended /\ player \in ret
         won == ~game_has_ended /\ enemies = {}
         objs1 == IF lost THEN Append(objects, game_over_sign) ELSE objects
         objs2 == IF won THEN Append(objs1, game_win_sign) ELSE objs1
     IN  /\ objects' = objs2
         /\ game_has_ended' = (game_has_ended \/ lost \/ won)
         /\ exit_time' = IF lost \/ won
                           THEN Some(now + GAMEWINORLOSE_WAIT)
                           ELSE exit_time
  /\ op' = "EndCheck"
  /\ pre' = Snapshot
  /\ pc' = "ui"
  /\ UNCHANGED <<heap, enemies, screen_width, screen_height, now, args, ret,
                 raised, hist>>

\* UpdatePlayerHealth(player, player_health)
UpdateUI ==
  /\ pc = "ui"
  /\ heap' = [heap EXCEPT ![player_health] =
                UpdatePlayerHealth(heap[player], heap[player_health])]
  /\ op' = "UpdatePlayerHealth"
  /\ pre' = Snapshot
  /\ pc' = "shoot"
  /\ UNCHANGED <<objects, mainVars, screen_width, screen_height, now, args,
                 ret, raised, hist>>

\* random.uniform(-1, 1): its two ends.  try_to_shoot only compares with it,
\* and what it may return with some draw it returns with -1 or with 1.
Jitters == {-TICKS, TICKS}

\* for enemy in enemies: ... the enemies of todo, js[e] being e's jitter.
RECURSIVE ShootLoop(_, _, _, _, _)
ShootLoop(h, objs, todo, js, time_now) ==
  IF todo = {} THEN [heap |-> h, objects |-> objs]
  ELSE
    LET e == CHOOSE e \in todo : \A f \in todo : e <= f
        r == try_to_shoot(h[e], time_now, js[e])
    IN  IF r.fired
          THEN ShootLoop(Append([h EXCEPT ![e] = r.obj], Bomb(h[e])),
                         Append(objs, Len(h) + 1), todo \ {e}, js, time_now)
          ELSE ShootLoop(h, objs, todo \ {e}, js, time_now)

EnemiesShoot ==
  /\ pc = "shoot"
  /\ \E js \in [enemies -> Jitters] :
       LET r == ShootLoop(heap, objects, enemies, js, now)
       IN  /\ heap' = r.heap
           /\ objects' = r.objects
  /\ op' = "try_to_shoot"
  /\ pre' = Snapshot
  /\ pc' = "move"
  /\ UNCHANGED <<mainVars, screen_width, screen_height, now, args, ret,
                 raised, hist>>

\* Mutant: i is incremented after a deletion too.
RECURSIVE MoveLoop_Skipping(_, _, _, _, _, _)
MoveLoop_Skipping(h, objs, i, called, height, width) ==
  IF i > Len(objs)
    THEN [heap |-> h, objects |-> objs, called |-> called, raised |-> ""]
  ELSE
    LET r == move(h[objs[i]], height, width)
        h1 == [h EXCEPT ![objs[i]] = r.obj]
        c1 == Append(called, objs[i])
    IN  IF r.raised # ""
          THEN [heap |-> h1, objects |-> objs, called |-> c1,
                raised |-> r.raised]
        ELSE IF r.ret
          THEN MoveLoop_Skipping(h1, objs, i + 1, c1, height, width)
        ELSE MoveLoop_Skipping(h1, Del(objs, i), i + 1, c1, height, width)

\* The motion pass from index i on: an object whose move() returns False is
\* deleted and i stays; an exception of move() ends main.  called lists the
\* objects move() was called on.
RECURSIVE MoveLoop(_, _, _, _, _, _)
MoveLoop(h, objs, i, called, height, width) ==
  IF i > Len(objs)
    THEN [heap |-> h, objects |-> objs, called |-> called, raised |-> ""]
  ELSE
    LET r == move(h[objs[i]], height, width)
        h1 == [h EXCEPT ![objs[i]] = r.obj]
        c1 == Append(called, objs[i])
    IN  IF r.raised # ""
          THEN [heap |-> h1, objects |-> objs, called |-> c1,
                raised |-> r.raised]
        ELSE IF r.ret
          THEN MoveLoop(h1, objs, i + 1, c1, height, width)
        ELSE MoveLoop(h1, Del(objs, i), i, c1, height, width)

MoveAll ==
  /\ pc = "move"
  /\ LET r == MoveLoop(heap, objects, 1, <<>>, screen_height, screen_width)
     IN  /\ heap' = r.heap
         /\ objects' = r.objects
         /\ args' = r.called
         /\ raised' = r.raised
         /\ pc' = IF r.raised = "" THEN "key" ELSE "crashed"
  /\ op' = "move"
  /\ pre' = Snapshot
  /\ UNCHANGED <<mainVars, screen_width, screen_height, now, ret, hist>>

\* The screen is drawn, getch() returns key, HandleKeyPress handles it.
\* hist counts the keys with a meaning pressed so far.
DrawAndHandleKey ==
  /\ pc = "key"
  /\ \E key \in Keys, pdb \in PdbCommands :
       /\ key \in {"none", "x", "p"} \/ Len(hist) < MaxKeys
       /\ LET r == HandleKeyPress(heap, objects, player, key, now, pdb)
          IN  /\ heap' = r.heap
              /\ objects' = r.objects
              /\ raised' = r.raised
              /\ pc' = IF r.raised # "" THEN "crashed"
                       ELSE IF r.ret THEN "exit"
                       ELSE "sleep"
       /\ args' = <<key>>
       /\ hist' = IF key \in {"none", "x", "p"} THEN hist ELSE Append(hist, key)
  /\ op' = "HandleKeyPress"
  /\ pre' = Snapshot
  /\ UNCHANGED <<mainVars, screen_width, screen_height, now, ret>>

\* Mutant: main returns as soon as the time has reached exit_time.
Sleep_AtDeadline ==
  /\ pc = "sleep"
  /\ now' = now + 1
  /\ pc' = IF exit_time # None /\ now' >= Val(exit_time)
             THEN "exit" ELSE "collide"
  /\ op' = "sleep"
  /\ UNCHANGED <<heap, objects, mainVars, screen_width, screen_height, args,
                 ret, raised, pre, hist>>

\* time.sleep(1.0 / FRAMES_PER_SECOND); if time.time() > exit_time: return 0
Sleep ==
  /\ pc = "sleep"
  /\ now' = now + 1
  /\ pc' = IF exit_time # None /\ now' > Val(exit_time)
             THEN "exit" ELSE "collide"
  /\ op' = "sleep"
  /\ UNCHANGED <<heap, objects, mainVars, screen_width, screen_height, args,
                 ret, raised, pre, hist>>

Next ==
  \/ Collide
  \/ Prune
  \/ EndCheck
  \/ UpdateUI
  \/ EnemiesShoot
  \/ MoveAll
  \/ DrawAndHandleKey
  \/ Sleep

Spec == InitMain /\ [][Next]_vars

---------------------------------------------------------------------------
(* The collision pass of a frame *)

\* In heap h the pair a, b is one a pass skips: the two share a label, or one
\* of them is not collidable.
SkippedPair(h, a, b) ==
  \/ h[a].label = h[b].label
  \/ ~h[a].can_collide
  \/ ~h[b].can_collide

\* C3: in every frame, the collision pass leaves every object its health but
\* for the damage of the partners it overlaps that have another label and are
\* collidable with it; a pair that shares a label, or has a non-collidable
\* member, takes nothing from either of its two objects although their boxes
\* overlap, so an object that overlaps only such partners keeps its health.
C3_SkippedPairsKeepHealth ==
  (pc = "prune") =>
    \A a \in Range(objects) :
      /\ heap[a].health =
           pre.heap[a].health
             - SumOver({b \in Range(objects) \ {a} :
                          /\ BoxesOverlap(pre.heap[a], pre.heap[b])
                          /\ ~SkippedPair(pre.heap, a, b)},
                       [b \in Range(objects) |-> pre.heap[b].damage])
      /\ (\A b \in Range(objects) \ {a} :
             BoxesOverlap(pre.heap[a], pre.heap[b]) => SkippedPair(pre.heap, a, b))
           => heap[a].health = pre.heap[a].health

\* After a pass, an enemy whose box overlaps another enemy's and the box of
\* the game-over banner, and nothing else: its health is what it was.
C3_Witness ==
  /\ pc = "prune"
  /\ \E a, b \in enemies :
       /\ a # b
       /\ {a, b, game_over_sign} \subseteq Range(objects)
       /\ pre.heap[a].can_collide /\ pre.heap[b].can_collide
       /\ pre.heap[a].label = "M" /\ pre.heap[b].label = "M"
       /\ ~pre.heap[game_over_sign].can_collide
       /\ BoxesOverlap(pre.heap[a], pre.heap[b])
       /\ BoxesOverlap(pre.heap[a], pre.heap[game_over_sign])
       /\ pre.heap[b].damage > 0 /\ pre.heap[game_over_sign].damage > 0
       /\ heap[a].health = pre.heap[a].health
       /\ heap[b].health = pre.heap[b].health
       /\ heap[game_over_sign].health = pre.heap[game_over_sign].health

---------------------------------------------------------------------------
(* The health indicator of a frame *)

\* C10 as stated: after the UI update of every frame the indicator's text is
\* health fill characters followed by max-health minus health blanks, and
\* its width is max-health, which is what its radius declares.
C10_IndicatorWidthFixed ==
  (pc = "shoot") =>
    LET text == heap[player_health].strings[1]
        health == heap[player].health
    IN  /\ text = Rep("X", health) \o Rep(" ", PLAYER_HEALTH_MAX - health)
        /\ Len(text) = PLAYER_HEALTH_MAX
        /\ Len(text) = 2 * heap[player_health].x_radius + 1

---------------------------------------------------------------------------
(* MakeAndInstallPlayerHealthObject on every small argument *)

MaxInstallHealth == 5
MaxInstallLen == 2

\* Python values for player_health_max: the ints of
\* -MaxInstallHealth .. MaxInstallHealth, the two bools, the floats n.0 and
\* n.5, None.
InstallArgs ==
  {[type |-> "int", v |-> n] : n \in (-MaxInstallHealth)..MaxInstallHealth}
    \cup {[type |-> "bool", v |-> n] : n \in {0, 1}}
    \cup {[type |-> "float", v |-> n] : n \in 0..MaxInstallHealth}
    \cup {[type |-> "NoneType", v |-> 0]}

InitInstall ==
  /\ \E a \in InstallArgs : args = <<a>>
  /\ heap \in SeqsUpTo({set_position(Ball(c), Some(0), Some(0)) : c \in {"*", "o"}},
                       MaxInstallLen)
  /\ objects = Identity(Len(heap))
  /\ screen_width = 0
  /\ screen_height = 0
  /\ pc = "start"
  /\ NoMain
  /\ op = ""
  /\ ret = None
  /\ raised = ""
  /\ pre = [heap |-> <<>>, objects |-> <<>>]
  /\ hist = <<>>

CallMakeAndInstallPlayerHealthObject ==
  /\ pc = "start"
  /\ LET r == MakeAndInstallPlayerHealthObject(heap, objects, args[1])
     IN  /\ heap' = r.heap
         /\ objects' = r.objects
         /\ ret' = r.ret
         /\ raised' = r.raised
  /\ op' = "MakeAndInstallPlayerHealthObject"
  /\ pre' = Snapshot
  /\ pc' = "done"
  /\ UNCHANGED <<mainVars, screen_width, screen_height, now, args, hist>>

SpecInstall == InitInstall /\ [][CallMakeAndInstallPlayerHealthObject]_vars

\* player_health_max is an integer, and an odd one.
IsInt(a) == a.type \in {"int", "bool"}
IsOddInt(a) == IsInt(a) /\ a.v % 2 = 1

\* C11 as stated: an even or non-integer max health is refused with the
\* error naming the constraint and the collection is left as it was; an odd
\* integer appends exactly the label and the indicator, both non-collidable,
\* and returns the indicator, a member of the collection.
C11_InstallValidates ==
  (pc = "done" /\ op = "MakeAndInstallPlayerHealthObject") =>
    /\ ~IsInt(args[1]) =>
         /\ raised = "TypeError: player_health_max must be int"
         /\ objects = pre.objects /\ heap = pre.heap
    /\ (IsInt(args[1]) /\ ~IsOddInt(args[1])) =>
         /\ raised = "ValueError: player_health_max must be an odd integer"
         /\ objects = pre.objects /\ heap = pre.heap
    /\ IsOddInt(args[1]) =>
         /\ raised = ""
         /\ Len(objects) = Len(pre.objects) + 2
         /\ SubSeq(objects, 1, Len(pre.objects)) = pre.objects
         /\ \A i \in (Len(pre.objects) + 1)..Len(objects) :
              ~heap[objects[i]].can_collide
         /\ ret = Some(objects[Len(objects)])

---------------------------------------------------------------------------
(* Sequences of set_speed, set_direction, stop, resume and move on one object *)

MaxMotionCalls == 3
MotionHeight == 20
MotionWidth == 30
\* 0, 0.5 and 1 cell per frame
MotionSpeeds == {0, SCALE \div 2, SCALE}
MotionDirections == {<<SCALE, 0>>, <<-SCALE, 0>>, <<SCALE, SCALE>>}

\* A ball in the middle of the area or on its right edge, its direction set
\* and then its speed, or its speed and then its direction.  hist lists the
\* calls made, each with the object it left; hist[1] is the construction.
InitMotion ==
  /\ screen_width = MotionWidth
  /\ screen_height = MotionHeight
  /\ \E x \in {screen_width \div 2, screen_width - 1},
        speed \in MotionSpeeds, d \in MotionDirections,
        speed_first \in BOOLEAN :
       LET placed == set_position(Ball("*"), Some(x * SCALE),
                                  Some((screen_height \div 2) * SCALE))
       IN  heap = <<IF speed_first
                      THEN set_direction(set_speed(placed, speed), d[1], d[2])
                      ELSE set_speed(set_direction(placed, d[1], d[2]), speed)>>
  /\ objects = <<>>
  /\ pc = "start"
  /\ NoMain
  /\ op = ""
  /\ args = <<>>
  /\ ret = None
  /\ raised = ""
  /\ pre = [heap |-> <<>>, objects |-> <<>>]
  /\ hist = <<[op |-> "__init__", obj |-> heap[1]]>>

\* One more call can be made on the object.
MotionReady ==
  /\ pc \in {"start", "done"}
  /\ raised = ""
  /\ Len(hist) <= MaxMotionCalls

\* The bookkeeping of a call named name that leaves the object o.
MotionCalled(name, o, a, r, e) ==
  /\ heap' = <<o>>
  /\ op' = name
  /\ args' = a
  /\ ret' = r
  /\ raised' = e
  /\ pre' = Snapshot
  /\ hist' = Append(hist, [op |-> name, obj |-> o])
  /\ pc' = "done"
  /\ UNCHANGED <<objects, mainVars, screen_width, screen_height, now>>

CallSetSpeed ==
  /\ MotionReady
  /\ \E speed \in MotionSpeeds :
       MotionCalled("set_speed", set_speed(heap[1], speed), <<speed>>, None, "")

CallSetDirection ==
  /\ MotionReady
  /\ \E d \in MotionDirections :
       MotionCalled("set_direction", set_direction(heap[1], d[1], d[2]), d,
                    None, "")

CallStop ==
  /\ MotionReady
  /\ MotionCalled("stop", stop(heap[1]), <<>>, None, "")

CallResume ==
  /\ MotionReady
  /\ LET r == resume(heap[1])
     IN  MotionCalled("resume", r.obj, <<>>, None, r.raised)

CallMoveInArea ==
  /\ MotionReady
  /\ LET r == move(heap[1], screen_height, screen_width)
     IN  MotionCalled("move", r.obj, <<screen_height, screen_width>>, r.ret,
                      r.raised)

NextMotion ==
  \/ CallSetSpeed
  \/ CallSetDirection
  \/ CallStop
  \/ CallResume
  \/ CallMoveInArea

SpecMotion == InitMotion /\ [][NextMotion]_vars

Velocity(o) == <<o.x_speed, o.y_speed>>
SavedVelocity(o) == <<o.x_speed_save, o.y_speed_save>>
Moving(o) == Velocity(o) # <<0, 0>>

\* C12 as stated: stop() on an object that is already stopped leaves the
\* saved velocity the one held before the first stop, so stop(); stop();
\* resume() on a moving object restores the velocity it had, as stop();
\* resume() does.
C12_StopIdempotent ==
  \A k \in 2..Len(hist) :
    (/\ k + 1 <= Len(hist)
     /\ Moving(hist[k - 1].obj)
     /\ hist[k].op = "stop" /\ hist[k + 1].op = "stop") =>
      /\ SavedVelocity(hist[k + 1].obj) = SavedVelocity(hist[k].obj)
      /\ SavedVelocity(hist[k + 1].obj) =
           <<Some(hist[k - 1].obj.x_speed), Some(hist[k - 1].obj.y_speed)>>
      /\ (k + 2 <= Len(hist) /\ hist[k + 2].op = "resume") =>
           Velocity(hist[k + 2].obj) = Velocity(hist[k - 1].obj)

\* C13: stop() and then resume() on a moving object gives it back both
\* velocity components exactly, without an error; resume() on an object whose
\* velocity is not zero raises nothing and changes nothing, neither the
\* velocity nor the saved velocity.
C13_StopResumeRestores ==
  /\ \A k \in 2..Len(hist) :
       /\ (/\ k + 1 <= Len(hist)
           /\ Moving(hist[k - 1].obj)
           /\ hist[k].op = "stop" /\ hist[k + 1].op = "resume") =>
            /\ Velocity(hist[k].obj) = <<0, 0>>
            /\ Velocity(hist[k + 1].obj) = Velocity(hist[k - 1].obj)
            /\ (k + 1 = Len(hist)) => raised = ""
       /\ (hist[k].op = "resume" /\ Moving(hist[k - 1].obj)) =>
            /\ hist[k].obj = hist[k - 1].obj
            /\ (k = Len(hist)) => raised = ""

\* A moving object stopped and resumed, moving as before, and resumed once
\* more while it moves.
C13_Witness ==
  /\ Len(hist) = 4
  /\ Moving(hist[1].obj)
  /\ hist[2].op = "stop" /\ hist[3].op = "resume" /\ hist[4].op = "resume"
  /\ Velocity(hist[2].obj) = <<0, 0>>
  /\ Velocity(hist[3].obj) = Velocity(hist[1].obj)
  /\ heap[1] = hist[3].obj
  /\ raised = ""

\* The velocity of o has the length o.speed, to the unit of the grid.
VelocityMatchesSpeed(o) ==
  LET len2 == o.x_speed * o.x_speed + o.y_speed * o.y_speed
  IN  /\ Max(o.speed - 1, 0) * Max(o.speed - 1, 0) <= len2
      /\ len2 <= (o.speed + 1) * (o.speed + 1)

\* The object is stopped: stop() was called and neither resume() nor
\* set_direction() since.
Stopped ==
  \E k \in 2..Len(hist) :
    /\ hist[k].op = "stop"
    /\ \A j \in (k + 1)..Len(hist) : hist[j].op \notin {"resume", "set_direction"}

\* C19 as stated: after any sequence of set_speed, set_direction, stop,
\* resume and move calls the length of the velocity (x_speed, y_speed) is the
\* speed field, unless the object is stopped.
C19_VelocityHasSpeed ==
  (pc = "done" /\ raised = "") => (Stopped \/ VelocityMatchesSpeed(heap[1]))

---------------------------------------------------------------------------
(* The end of the match *)

\* How often object id is in the list objs.
Count(objs, id) == Cardinality({i \in 1..Len(objs) : objs[i] = id})

Shown(id) == id \in Range(objects)

\* C14: once game_has_ended is set it stays set, the exit deadline is
\* assigned in the step that sets the flag (to the time of that frame plus the
\* wait), is unset before and never changes afterwards, and no banner is added
\* to the collection in a step that starts with the flag set.
C14_EndedIsTerminal ==
  [][/\ game_has_ended =>
          /\ game_has_ended'
          /\ exit_time' = exit_time
          /\ Count(objects', game_over_sign) <= Count(objects, game_over_sign)
          /\ Count(objects', game_win_sign) <= Count(objects, game_win_sign)
     /\ ~game_has_ended => exit_time = None
     /\ (~game_has_ended /\ game_has_ended') =>
          /\ pc = "endcheck"
          /\ exit_time' = Some(now + GAMEWINORLOSE_WAIT)
     /\ ~game_has_ended' => exit_time' = None]_vars

\* The end conditions evaluated in a frame after the one of the transition,
\* with no enemy alive, so that the win condition holds again: one win
\* banner, the deadline of the earlier frame.
C14_Witness ==
  /\ pc = "ui" /\ op = "EndCheck"
  /\ game_has_ended
  /\ enemies = {}
  /\ Val(exit_time) < now + GAMEWINORLOSE_WAIT
  /\ Count(objects, game_win_sign) = 1
  /\ objects = pre.objects

\* C15 as stated: at most one of the two banners is in the collection.
C15_OneOutcome == ~(Shown(game_over_sign) /\ Shown(game_win_sign))

\* C16: while the match runs neither banner is in the collection; the lose
\* banner enters it only in the end check of the frame that ends the match
\* and only if the player is among the objects pruned in that frame, the win
\* banner only in that end check and only if no enemy is alive then; neither
\* banner is in the collection twice.
C16_BannerOnlyOnItsCondition ==
  [][/\ ~game_has_ended =>
          ~Shown(game_over_sign) /\ ~Shown(game_win_sign)
     /\ ~game_has_ended' =>
          Count(objects', game_over_sign) = 0 /\ Count(objects', game_win_sign) = 0
     /\ Count(objects', game_over_sign) > Count(objects, game_over_sign) =>
          /\ pc = "endcheck" /\ ~game_has_ended /\ game_has_ended'
          /\ player \in ret
     /\ Count(objects', game_win_sign) > Count(objects, game_win_sign) =>
          /\ pc = "endcheck" /\ ~game_has_ended /\ game_has_ended'
          /\ enemies = {}
     /\ Count(objects', game_over_sign) <= 1
     /\ Count(objects', game_win_sign) <= 1]_vars

\* The end check of the frame in which the player is pruned while an enemy
\* lives: the lose banner is added, the win banner is not.
C16_Witness ==
  /\ pc = "ui" /\ op = "EndCheck"
  /\ player \in ret
  /\ enemies # {}
  /\ ~Shown(player)
  /\ Count(pre.objects, game_over_sign) = 0
  /\ Count(objects, game_over_sign) = 1
  /\ ~Shown(game_win_sign)
  /\ game_has_ended

---------------------------------------------------------------------------
(* The motion pass of a frame *)

\* move() on object o of the heap before the pass keeps o in the area.
Stays(o) ==
  LET r == move(pre.heap[o], screen_height, screen_width)
  IN  r.raised = "" /\ r.ret

\* C17: in a motion pass that raises nothing, move() is called exactly once
\* on every object of the collection, in the order of the collection as it
\* was when the pass started, every object is left as its move() leaves it,
\* and the collection afterwards holds the objects whose move() returned
\* True, in their order.
C17_MotionPassVisitsAll ==
  (pc = "key" /\ op = "move") =>
    /\ args = pre.objects
    /\ objects = SelectSeq(pre.objects, Stays)
    /\ \A o \in Range(pre.objects) :
         heap[o] = move(pre.heap[o], screen_height, screen_width).obj

\* A pass in which an object leaves the area and is deleted, and the object
\* behind it in the collection, which slides into its index, is moved.
C17_Witness ==
  /\ pc = "key" /\ op = "move"
  /\ \E i \in 1..(Len(pre.objects) - 1) :
       /\ ~Stays(pre.objects[i])
       /\ ~Shown(pre.objects[i])
       /\ args[i + 1] = pre.objects[i + 1]
       /\ Shown(pre.objects[i + 1])

---------------------------------------------------------------------------
(* The keys of a frame *)

\* C18 as stated: a key that is none of quit, left, right, stop, fire laser
\* and fire rocket raises nothing, returns the continue signal (the loop goes
\* on to its sleep) and leaves the player and the collection as they were.
C18_OtherKeysIgnored ==
  (op = "HandleKeyPress" /\ args[1] \notin {"q", "a", "d", "s", " ", "r"}) =>
    /\ raised = ""
    /\ pc = "sleep"
    /\ heap[player] = pre.heap[player]
    /\ objects = pre.objects

---------------------------------------------------------------------------
(* main(): the frame loop until it stops *)

\* The frames followed: more than the wait after the end of a match that
\* ends in one of the first frames.
MaxLongFrames == 36
\* No key, quit, the debugger key.
LongKeys == {"none", "q", "p"}
\* random.uniform(-1, 1) at its upper end: an enemy shoots as late as it can.
LateJitters == {TICKS}

\* RunCollisionDetection(objects), in one of the frames followed.
CollideLong ==
  /\ pc = "collide"
  /\ now < StartTime + MaxLongFrames
  /\ heap' = RunCollisionDetection(heap, objects).heap
  /\ op' = "RunCollisionDetection"
  /\ pre' = Snapshot
  /\ pc' = "prune"
  /\ UNCHANGED <<objects, mainVars, screen_width, screen_height, now, args,
                 ret, raised, hist>>

EnemiesShootLate ==
  /\ pc = "shoot"
  /\ \E js \in [enemies -> LateJitters] :
       LET r == ShootLoop(heap, objects, enemies, js, now)
       IN  /\ heap' = r.heap
           /\ objects' = r.objects
  /\ op' = "try_to_shoot"
  /\ pre' = Snapshot
  /\ pc' = "move"
  /\ UNCHANGED <<mainVars, screen_width, screen_height, now, args, ret,
                 raised, hist>>

\* The screen is drawn, getch() returns one of LongKeys, HandleKeyPress
\* handles it.
DrawAndHandleLongKey ==
  /\ pc = "key"
  /\ \E key \in LongKeys, pdb \in PdbCommands :
       /\ LET r == HandleKeyPress(heap, objects, player, key, now, pdb)
          IN  /\ heap' = r.heap
              /\ objects' = r.objects
              /\ raised' = r.raised
              /\ pc' = IF r.raised # "" THEN "crashed"
                       ELSE IF r.ret THEN "exit"
                       ELSE "sleep"
       /\ args' = <<key>>
  /\ op' = "HandleKeyPress"
  /\ pre' = Snapshot
  /\ UNCHANGED <<mainVars, screen_width, screen_height, now, ret, hist>>

NextLong ==
  \/ CollideLong
  \/ Prune
  \/ EndCheck
  \/ UpdateUI
  \/ EnemiesShootLate
  \/ MoveAll
  \/ DrawAndHandleLongKey
  \/ Sleep

\* The values of pc.
PcValues ==
  {"collide", "prune", "endcheck", "ui", "shoot", "move", "key", "sleep",
   "exit", "crashed"}

\* The loop can take a step: main has not returned and no exception has left
\* it (and the frame is one of those followed).  Each phase of a frame can
\* always be taken, so these are the states in which NextLong is enabled.
LoopCanStep ==
  /\ pc \notin {"exit", "crashed"}
  /\ pc = "collide" => now < StartTime + MaxLongFrames

\* A step of the loop, as far as pc tells: every step of NextLong changes pc.
LoopStep == LoopCanStep /\ pc' \in PcValues \ {pc}

\* The one thread of main keeps running: while the loop can take a step, it
\* takes one.
SpecLong == InitMain /\ [][NextLong]_vars /\ WF_pc(LoopStep)

\* The loop has stopped: main has returned, or an exception has left it.
Stopped20 == pc \in {"exit", "crashed"}
Returned == pc = "exit"

\* The deadline falls within the frames followed.
DeadlineFollowed ==
  exit_time # None /\ Val(exit_time) < StartTime + MaxLongFrames

\* The step polls the quit key.
PollsQuit == pc = "key" /\ args' = <<"q">>

\* The step is the end-of-frame check, the time then being past the deadline.
ChecksPastDeadline ==
  pc = "sleep" /\ exit_time # None /\ now' > Val(exit_time)

---------------------------------------------------------------------------
(* try_to_shoot on one enemy as time passes *)

MaxShootTime == 35
MaxShootCalls == 2
\* 0 (never), half a second, and the 2 seconds MakeEnemies sets
ShootIntervals == {0, TICKS \div 2, 2 * TICKS}
\* random.uniform(-1, 1), in ticks: both ends, the middle and a tick around it
ShootJitters == {-TICKS, -1, 0, 1, TICKS}
\* never positioned, positioned with x None, positioned
ShootPositions ==
  {<<None, None>>, <<None, Some(5 * SCALE)>>, <<Some(5 * SCALE), Some(5 * SCALE)>>}

InitShoot ==
  /\ \E p \in ShootPositions, t \in ShootIntervals :
       heap = <<set_shoot_interval(
                  set_position(Enemy(1, 1, SmallEnemyStrings, 0), p[1], p[2]),
                  t, 0)>>
  /\ objects = <<>>
  /\ now = 0
  /\ screen_width = 0
  /\ screen_height = 0
  /\ pc = "start"
  /\ enemies = {}
  /\ game_has_ended = FALSE
  /\ exit_time = None
  /\ NoCall

\* Time passes.
ShootTick ==
  /\ now < MaxShootTime
  /\ now' = now + 1
  /\ pc' = "idle"
  /\ UNCHANGED <<heap, objects, mainVars, screen_width, screen_height, op, args,
                 ret, raised, pre, hist>>

\* enemy.set_shoot_interval(t)
CallSetShootInterval ==
  /\ raised = ""
  /\ Len(hist) < MaxShootCalls
  /\ \E t \in ShootIntervals :
       /\ heap' = [heap EXCEPT ![1] = set_shoot_interval(heap[1], t, now)]
       /\ args' = <<1, t>>
  /\ ret' = None
  /\ raised' = ""
  /\ op' = "set_shoot_interval"
  /\ pre' = Snapshot
  /\ hist' = Append(hist, "set_shoot_interval")
  /\ pc' = "done"
  /\ UNCHANGED <<objects, mainVars, screen_width, screen_height, now>>

\* enemy.try_to_shoot(): ret is the bomb or None.
CallTryToShoot ==
  /\ raised = ""
  /\ Len(hist) < MaxShootCalls
  /\ \E jitter \in ShootJitters :
       LET r == try_to_shoot(heap[1], now, jitter)
       IN  /\ IF r.fired
                THEN /\ heap' = Append([heap EXCEPT ![1] = r.obj], Bomb(heap[1]))
                     /\ ret' = Some(Len(heap) + 1)
                ELSE /\ heap' = [heap EXCEPT ![1] = r.obj]
                     /\ ret' = None
           /\ raised' = r.raised
           /\ args' = <<1, jitter>>
  /\ op' = "try_to_shoot"
  /\ pre' = Snapshot
  /\ hist' = Append(hist, "try_to_shoot")
  /\ pc' = "done"
  /\ UNCHANGED <<objects, mainVars, screen_width, screen_height, now>>

NextShoot == ShootTick \/ CallSetShootInterval \/ CallTryToShoot

SpecShoot == InitShoot /\ [][NextShoot]_vars

---------------------------------------------------------------------------
(* main(): the frame loop with the player turning and firing *)

MaxFireFrames == 8
MaxFireKeys == 2
\* No key, left, right, stop, laser, rocket.
FireKeys == {"none", "a", "d", "s", " ", "r"}

\* main starts with one enemy.
InitFire == InitMain /\ Cardinality(enemies) = 1

\* RunCollisionDetection(objects), in one of the frames followed.
CollideFire ==
  /\ pc = "collide"
  /\ now < StartTime + MaxFireFrames
  /\ heap' = RunCollisionDetection(heap, objects).heap
  /\ op' = "RunCollisionDetection"
  /\ pre' = Snapshot
  /\ pc' = "prune"
  /\ UNCHANGED <<objects, mainVars, screen_width, screen_height, now, args,
                 ret, raised, hist>>

\* The screen is drawn, getch() returns one of FireKeys, HandleKeyPress
\* handles it.  hist lists the keys pressed so far.
DrawAndHandleFireKey ==
  /\ pc = "key"
  /\ \E key \in FireKeys :
       /\ key = "none" \/ Len(hist) < MaxFireKeys
       /\ LET r == HandleKeyPress(heap, objects, player, key, now, "c")
          IN  /\ heap' = r.heap
              /\ objects' = r.objects
              /\ raised' = r.raised
              /\ pc' = IF r.raised # "" THEN "crashed"
                       ELSE IF r.ret THEN "exit"
                       ELSE "sleep"
       /\ args' = <<key>>
       /\ hist' = IF key = "none" THEN hist ELSE Append(hist, key)
  /\ op' = "HandleKeyPress"
  /\ pre' = Snapshot
  /\ UNCHANGED <<mainVars, screen_width, screen_height, now, ret>>

NextFire ==
  \/ CollideFire
  \/ Prune
  \/ EndCheck
  \/ UpdateUI
  \/ EnemiesShoot
  \/ MoveAll
  \/ DrawAndHandleFireKey
  \/ Sleep

SpecFire == InitFire /\ [][NextFire]_vars

\* The lasers and rockets in the collection: the objects labelled B or R.
PlayerProjectiles == {i \in Range(objects) : heap[i].label \in {"B", "R"}}

\* C23: a laser or rocket fired by the player never overlaps the player's
\* box, from the frame it is spawned in until it is removed, and a collision
\* pass takes from the player's health only the damage of the other objects
\* on it.
C23_NoSelfCollision ==
  /\ \A i \in PlayerProjectiles :
       /\ ~BoxesOverlap(heap[player], heap[i])
       /\ ~HaveObjectsCollided(heap[player], heap[i])
  /\ (pc = "prune" /\ player \in Range(pre.objects)) =>
       heap[player].health =
         pre.heap[player].health
           - SumOver({b \in Range(pre.objects) :
                        /\ Damages(pre.heap, b, player)
                        /\ pre.heap[b].label \notin {"B", "R"}},
                     [b \in Range(pre.objects) |-> pre.heap[b].damage])

\* After a collision pass the player, turned to the left, is in the
\* collection with a rocket it fired.
C23_Witness ==
  /\ pc = "prune"
  /\ player \in Range(objects)
  /\ heap[player].x_speed < 0
  /\ \E i \in PlayerProjectiles : heap[i].label = "R"

---------------------------------------------------------------------------
(* main(): the frame loop with enemies that shoot *)

\* The first bomb can be dropped in the twelfth frame, more than a second
\* after MakeEnemies set the interval of 2 seconds.
MaxBombFrames == 15
\* No key, quit.
BombKeys == {"none", "q"}

\* The draws of MakeEnemies followed here: two small enemies at the same
\* column heading right, one at the top of the band and one at its bottom.
BombDraws ==
  <<[variant |-> 0, xoff |-> 0, yoff |-> -(Lines \div 4) + 1, left |-> FALSE],
    [variant |-> 0, xoff |-> 0, yoff |-> Lines \div 4, left |-> FALSE]>>

InitBombs ==
  /\ screen_width = Cols
  /\ screen_height = Lines
  /\ now = StartTime
  /\ \E n \in 1..Len(BombDraws) :
       /\ heap =
            <<set_position(MakePlayer, Some(3 * SCALE),
                           Some((screen_height - 4) * SCALE)),
              HealthLabel,
              HealthIndicator(PLAYER_HEALTH_MAX),
              set_position(MakeGameOver, Some((screen_width * SCALE) \div 2),
                           Some((screen_height * SCALE) \div 2)),
              set_position(MakeGameWin, Some((screen_width * SCALE) \div 2),
                           Some((screen_height * SCALE) \div 2))>>
            \o [i \in 1..n |->
                  MakeEnemy(BombDraws[i].variant, BombDraws[i].xoff,
                            BombDraws[i].yoff, BombDraws[i].left,
                            screen_width, screen_height, now)]
       /\ objects = <<player, health_label, player_health>>
                      \o [i \in 1..n |-> game_win_sign + i]
       /\ enemies = {game_win_sign + i : i \in 1..n}
  /\ game_has_ended = FALSE
  /\ exit_time = None
  /\ pc = "collide"
  /\ op = ""
  /\ args = <<>>
  /\ ret = {}
  /\ raised = ""
  /\ pre = [heap |-> <<>>, objects |-> <<>>]
  /\ hist = <<>>

\* RunCollisionDetection(objects), in one of the frames followed.
CollideBombs ==
  /\ pc = "collide"
  /\ now < StartTime + MaxBombFrames
  /\ heap' = RunCollisionDetection(heap, objects).heap
  /\ op' = "RunCollisionDetection"
  /\ pre' = Snapshot
  /\ pc' = "prune"
  /\ UNCHANGED <<objects, mainVars, screen_width, screen_height, now, args,
                 ret, raised, hist>>

\* The screen is drawn, getch() returns one of BombKeys, HandleKeyPress
\* handles it.
DrawAndHandleBombKey ==
  /\ pc = "key"
  /\ \E key \in BombKeys :
       /\ LET r == HandleKeyPress(heap, objects, player, key, now, "c")
          IN  /\ heap' = r.heap
              /\ objects' = r.objects
              /\ raised' = r.raised
              /\ pc' = IF r.raised # "" THEN "crashed"
                       ELSE IF r.ret THEN "exit"
                       ELSE "sleep"
       /\ args' = <<key>>
  /\ op' = "HandleKeyPress"
  /\ pre' = Snapshot
  /\ UNCHANGED <<mainVars, screen_width, screen_height, now, ret, hist>>

NextBombs ==
  \/ CollideBombs
  \/ Prune
  \/ EndCheck
  \/ UpdateUI
  \/ EnemiesShoot
  \/ MoveAll
  \/ DrawAndHandleBombKey
  \/ Sleep

SpecBombs == InitBombs /\ [][NextBombs]_vars

\* The bombs in the collection.
Bombs == {i \in Range(objects) : heap[i].label = "BOMB"}

\* C24: from the end of the prune step to the next collision pass (through
\* enemy fire, the motion pass, the drawing and the key) every object in the
\* collection has health > 0.
C24_NoDeadAfterPrune ==
  pc # "prune" => \A i \in Range(objects) : heap[i].health > 0

\* The prune step has just removed an object (a bomb that hit something),
\* and a bomb dropped since is in the collection at the motion pass.
C24_Witness ==
  /\ pc = "key" /\ op = "move"
  /\ ret # {}
  /\ Bombs # {}

\* C25: no collision pass takes health from an enemy because of a bomb: no
\* bomb is on an enemy when the pass runs, and the pass takes from every
\* enemy's health exactly the damage of the other objects on it.
C25_BombsSpareEnemies ==
  (pc = "prune" /\ op = "RunCollisionDetection") =>
    \A e \in {e \in Range(pre.objects) : pre.heap[e].label = "M"} :
      /\ \A b \in Range(pre.objects) :
           pre.heap[b].label = "BOMB" => ~Damages(pre.heap, b, e)
      /\ heap[e].health =
           pre.heap[e].health
             - SumOver({b \in Range(pre.objects) :
                          /\ Damages(pre.heap, b, e)
                          /\ pre.heap[b].label # "BOMB"},
                       [b \in Range(pre.objects) |-> pre.heap[b].damage])

---------------------------------------------------------------------------
(* The keys after the player is gone *)

\* The match is lost: the banner is up and the player is out of the collection.
Lost(objs) == game_over_sign \in Range(objs) /\ player \notin Range(objs)

\* C26: once the player has been pruned, a key adds no laser or rocket to
\* the collection and changes no enemy's health.
C26_DeadPlayerHoldsFire ==
  (op = "HandleKeyPress" /\ Lost(pre.objects)) =>
    /\ \A i \in Range(objects) :
         heap[i].label \in {"B", "R"} => i \in Range(pre.objects)
    /\ \A e \in enemies : heap[e].health = pre.heap[e].health

---------------------------------------------------------------------------
(* The area and the motion pass *)

\* The box of o lies within [0, width - 1] x [0, height - 1].
WithinArea(o, height, width) ==
  /\ o.x # None /\ o.y # None
  /\ 0 <= Val(o.x) - o.x_radius * SCALE
  /\ Val(o.x) + o.x_radius * SCALE <= (width - 1) * SCALE
  /\ 0 <= Val(o.y) - o.y_radius * SCALE
  /\ Val(o.y) + o.y_radius * SCALE <= (height - 1) * SCALE

\* C27: after a motion pass every object still in the collection (those
\* whose move() returned True) lies within the area, and every BOUNCE object
\* that was in the collection before the pass is still in it.
C27_MotionPassKeepsInside ==
  (pc = "key" /\ op = "move") =>
    /\ \A i \in Range(objects) : WithinArea(heap[i], screen_height, screen_width)
    /\ \A i \in Range(pre.objects) :
         pre.heap[i].edge_strategy = BOUNCE => i \in Range(objects)

\* A motion pass in which a moving BOUNCE object was reflected at an edge and
\* a DISAPPEAR object was removed.
C27_Witness ==
  /\ pc = "key" /\ op = "move"
  /\ \E i \in Range(objects) :
       /\ heap[i].edge_strategy = BOUNCE
       /\ pre.heap[i].x_speed # 0
       /\ heap[i].x_speed = -pre.heap[i].x_speed
  /\ \E i \in Range(pre.objects) :
       /\ pre.heap[i].edge_strategy = DISAPPEAR
       /\ i \notin Range(objects)

====
